---- MODULE Spec2Model ----
(***************************************************************************)
(* Market-data resolution and quoting layer of tg-fin-assistant            *)
(* (src/app/providers.py): resolve_source, get_quote, the three quote      *)
(* fetchers and their TTL caches, get_key_rate, get_security_history and   *)
(* the attempts of _http_get, as a state machine.                          *)
(*                                                                         *)
(* Conventions.                                                            *)
(*  - A Python str that the code transforms (upper, strip, lower, regex,   *)
(*    substring search) is a tuple of one-character strings, so that the   *)
(*    transformation is computed and not assumed.  Enumerated literals     *)
(*    (route names, reason codes, source names) are TLA+ strings.          *)
(*  - Optional[T] is Nil (None) or Some(x).                                *)
(*  - A JSON scalar is a tagged record: Null, Num(n), Str(s), Bool(b).     *)
(*    Prices are integers (no claim here depends on fractions).            *)
(*  - A table row (a Python dict) is a function from field names to JSON   *)
(*    scalars; Get(row, f) is row.get(f).                                  *)
(*  - HTTP follows the contract of the `requests` package that             *)
(*    app/_requests.py proxies and that the test double implements:        *)
(*    _http_get either raises RequestException (transport failure left     *)
(*    after the retries) or returns a response with a status code, and     *)
(*    raise_for_status raises HTTPError (a RequestException) for a status  *)
(*    outside 200..399.  SpecHttp alone also covers the builds in which    *)
(*    app/_requests.py or app/_tenacity.py fall back to their own code.    *)
(*  - A key rate is an integer in units of 10^-4 (0.135 is 1350), so that  *)
(*    the percent threshold 1.5 and the division by 100 are exact.         *)
(***************************************************************************)
EXTENDS Integers, Sequences, FiniteSets, TLC

VARIABLES
    clock,              \* the wall clock read by _now()
    settings,           \* settings.TWELVEDATA_API_KEY / FINNHUB_API_KEY /
                        \* KEY_RATE_FALLBACK
    QUOTE_CACHE,        \* _QUOTE_CACHE: cache key -> <<fetch time, Quote>>
    SECURITY_CACHE,     \* _SECURITY_CACHE: ticker -> <<fetch time, tables>>
    KEY_RATE_CACHE,     \* _KEY_RATE_CACHE: None or <<fetch time, rate>>
    HISTORY_CACHE,      \* _HISTORY_CACHE: <<ticker, board, days>> -> <<time, rows>>
    INDEX_CACHE,        \* _INDEX_CACHE: index name -> <<fetch time, value>>
    http,               \* the _http_get call in progress: attempts and outcome
    job,                \* the scheduled job in progress: users left, messages sent
    UNIVERSE_CACHE,     \* tinkoff_filter._UNIVERSE_CACHE: None or (path, mtime, universe, strict)
    universe_file,      \* the file at settings.TINKOFF_UNIVERSE_PATH: None or mtime and YAML
    last,               \* the last completed call: arguments, locals, outcome
    callers,            \* the calls in progress side by side: each caller's position and locals
    db                  \* the database: users and their contributions

vars == <<clock, settings, QUOTE_CACHE, SECURITY_CACHE, KEY_RATE_CACHE, HISTORY_CACHE, INDEX_CACHE,
          http, job, UNIVERSE_CACHE, universe_file, last, callers, db>>

-----------------------------------------------------------------------------
(* Bounds of the model *)

\* settings.CACHE_TTL_SEC in clock ticks (any configured value >= 1).
CACHE_TTL_SEC == 2
\* The clock stops advancing here.
MaxClock == 3
\* Longest time one securities lookup may take (retries included), in ticks.
MaxLatency == 2
\* _KEY_RATE_TTL (one hour) in clock ticks.
KEY_RATE_TTL == 2
\* stop_after_attempt(3) of the retry decorator of _http_get.
MaxAttempts == 3
\* The cache time of get_security_history (ten minutes) in clock ticks.
HISTORY_TTL == 2
\* _INDEX_CACHE_TTL (ten minutes) in clock ticks.
INDEX_TTL == 2
\* The universe file is rewritten at most until its time reaches this.
MaxMtime == 2
\* The iterations of a remainder loop of propose_allocation that are followed.
MaxLoopSteps == 100
\* The rows of the contributions table that are followed.
MaxContributions == 3
\* A page of fewer rows than this ends the paging of get_security_history.
FullPage == 100

-----------------------------------------------------------------------------
(* Optional values and Python strings *)

Nil == <<>>
Some(x) == <<x>>
IsNil(o) == o = Nil
Val(o) == o[1]

\* Optional value or default
OrElse(o, default) == IF o # Nil THEN Val(o) ELSE default

Min(S) == CHOOSE x \in S : \A y \in S : x <= y
Max(S) == CHOOSE x \in S : \A y \in S : x >= y

LowerLetters ==
    <<"a","b","c","d","e","f","g","h","i","j","k","l","m",
      "n","o","p","q","r","s","t","u","v","w","x","y","z">>
UpperLetters ==
    <<"A","B","C","D","E","F","G","H","I","J","K","L","M",
      "N","O","P","Q","R","S","T","U","V","W","X","Y","Z">>
Whitespace == {" ", "\t", "\n", "\r"}

IsUpperLetter(c) == \E i \in 1..26 : UpperLetters[i] = c

UpperChar(c) ==
    IF \E i \in 1..26 : LowerLetters[i] = c
    THEN UpperLetters[CHOOSE i \in 1..26 : LowerLetters[i] = c]
    ELSE c

LowerChar(c) ==
    IF \E i \in 1..26 : UpperLetters[i] = c
    THEN LowerLetters[CHOOSE i \in 1..26 : UpperLetters[i] = c]
    ELSE c

\* str.upper()
Upper(s) == [i \in 1..Len(s) |-> UpperChar(s[i])]
\* str.lower()
Lower(s) == [i \in 1..Len(s) |-> LowerChar(s[i])]
\* Variant: a normalisation that keeps surrounding whitespace.
StripNothing(s) == s

\* str.strip()
Strip(s) ==
    LET keep == {i \in 1..Len(s) : s[i] \notin Whitespace}
    IN  IF keep = {} THEN <<>> ELSE SubSeq(s, Min(keep), Max(keep))

\* str.endswith(suffix)
EndsWith(s, suffix) ==
    /\ Len(s) >= Len(suffix)
    /\ SubSeq(s, Len(s) - Len(suffix) + 1, Len(s)) = suffix

\* needle in s
Contains(s, needle) ==
    \E i \in 1..(Len(s) - Len(needle) + 1) :
        SubSeq(s, i, i + Len(needle) - 1) = needle

-----------------------------------------------------------------------------
(* JSON scalars and rows *)

Null == [t |-> "null"]
Num(n) == [t |-> "num", v |-> n]
Str(s) == [t |-> "str", v |-> s]
Bool(b) == [t |-> "bool", v |-> b]
\* A JSON number with a fraction, in units of 10^-4 (key rates only).
Dec(units) == [t |-> "dec", v |-> units]

\* dict.get(f)
Get(row, f) == IF f \in DOMAIN row THEN row[f] ELSE Null

\* Python truthiness of a JSON scalar
Truthy(x) ==
    CASE x.t = "null" -> FALSE
      [] x.t = "num"  -> x.v # 0
      [] x.t = "dec"  -> x.v # 0
      [] x.t = "str"  -> x.v # <<>>
      [] x.t = "bool" -> x.v

\* a or b
Or(a, b) == IF Truthy(a) THEN a ELSE b

Digits == <<"0","1","2","3","4","5","6","7","8","9">>
IsDigit(c) == \E i \in 1..10 : Digits[i] = c
DigitVal(c) == (CHOOSE i \in 1..10 : Digits[i] = c) - 1

RECURSIVE ParseDigits(_)
ParseDigits(s) ==
    IF s = <<>> THEN 0
    ELSE 10 * ParseDigits(SubSeq(s, 1, Len(s) - 1)) + DigitVal(s[Len(s)])

\* float(text) for the numerals of the model: an optional sign and digits,
\* surrounding whitespace removed by the caller; any other text raises
\* ValueError (Nil).
ParseFloat(s) ==
    LET neg == s # <<>> /\ s[1] = "-"
        body == IF neg THEN Tail(s) ELSE s
    IN  IF body # <<>> /\ \A i \in 1..Len(body) : IsDigit(body[i])
        THEN Some(IF neg THEN 0 - ParseDigits(body) ELSE ParseDigits(body))
        ELSE Nil

\* _safe_float
_safe_float(x) ==
    CASE x.t = "null" -> Nil
      [] x.t = "str"  -> IF x.v = <<>> THEN Nil
                         ELSE ParseFloat(Strip([i \in 1..Len(x.v) |->
                                            IF x.v[i] = "," THEN "." ELSE x.v[i]]))
      [] x.t = "num"  -> Some(x.v)
      [] x.t = "bool" -> Some(IF x.v THEN 1 ELSE 0)

\* Variant: Python truthiness instead of the accepted spellings of true.
IsTrueTruthy(x) == Truthy(x)

\* _is_true
_is_true(x) ==
    CASE x.t = "bool" -> x.v
      [] x.t = "num"  -> x.v # 0
      [] x.t = "str"  -> Lower(Strip(x.v)) \in
                            {<<"1">>, <<"t","r","u","e">>, <<"y","e","s">>, <<"y">>}
      [] x.t = "null" -> FALSE

-----------------------------------------------------------------------------
(* ISS tables: _parse_iss_tables / _normalize_table *)

\* A table block of an ISS payload is a list of row objects or a columnar
\* {columns, data} object.
ListBlock(rows) == [kind |-> "list", rows |-> rows]
ColumnarBlock(columns, data) == [kind |-> "dict", columns |-> columns, data |-> data]

\* dict(zip(columns, row)): pairs up to the shorter length, a repeated column
\* keeps its last value.
ZipRow(columns, row) ==
    LET n == IF Len(columns) < Len(row) THEN Len(columns) ELSE Len(row)
    IN  [f \in {columns[i] : i \in 1..n} |->
            row[Max({i \in 1..n : columns[i] = f})]]

_normalize_table(value) ==
    IF value.kind = "list" THEN value.rows
    ELSE IF value.columns # <<>> /\ value.data # <<>>
         THEN [j \in 1..Len(value.data) |-> ZipRow(value.columns, value.data[j])]
         ELSE <<>>

\* payload: a JSON object, table name -> block
_parse_iss_tables(payload) == [name \in DOMAIN payload |-> _normalize_table(payload[name])]

\* tables.get(name) or []
TableOrEmpty(tables, name) == IF name \in DOMAIN tables THEN tables[name] ELSE <<>>

-----------------------------------------------------------------------------
(* HTTP *)

\* What one _http_get call ends in: a transport failure (RequestException
\* after the retries) or a response carrying a status code and a JSON body.
TransportError == [exc |-> TRUE, status |-> 0, json |-> Null]
Response(status, json) == [exc |-> FALSE, status |-> status, json |-> json]

\* response.raise_for_status() raises HTTPError
RaisesForStatus(resp) == ~(200 <= resp.status /\ resp.status < 400)

\* One entry of the request log of a call.
Req(endpoint, resp) == [ep |-> endpoint, resp |-> resp]

-----------------------------------------------------------------------------
(* Routes and the resolver *)

SUR == <<"S","U","R">>
USD == <<"U","S","D">>
TQBR == <<"T","Q","B","R">>
TQTF == <<"T","Q","T","F">>
USDT == <<"U","S","D","T">>
BTC == <<"B","T","C">>
BUSD == <<"B","U","S","D">>
DotMOEX == <<".","M","O","E","X">>

SourceRoute(name, symbol, board, market, engine, reason, currency) ==
    [name |-> name, symbol |-> symbol, board |-> board, market |-> market,
     engine |-> engine, reason |-> reason, currency |-> currency]

_ALWAYS_AGGREGATOR ==
    (<<"F","X","I","T">> :> [symbol |-> <<"F","X","I","T",".","M","O","E","X">>,
                             currency |-> SUR, reason |-> "delisted_from_moex"])
 @@ (<<"F","X","W","O">> :> [symbol |-> <<"F","X","W","O",".","M","O","E","X">>,
                             currency |-> SUR, reason |-> "delisted_from_moex"])
 @@ (<<"F","X","G","D">> :> [symbol |-> <<"F","X","G","D",".","M","O","E","X">>,
                             currency |-> SUR, reason |-> "delisted_from_moex"])
 @@ (<<"F","X","R","B">> :> [symbol |-> <<"F","X","R","B",".","M","O","E","X">>,
                             currency |-> SUR, reason |-> "delisted_from_moex"])
 @@ (<<"Y","N","D","X">> :> [symbol |-> <<"Y","N","D","X",".","U","S">>,
                             currency |-> USD, reason |-> "moex_delisting_announced"])

\* Variant: ^[A-Z]+(USDT|BTC|BUSD)$, any number of letters before the suffix.
CryptoPairAnyLength(symbol) ==
    \E suffix \in {USDT, BTC, BUSD} :
        /\ EndsWith(symbol, suffix)
        /\ Len(symbol) - Len(suffix) >= 1
        /\ \A i \in 1..(Len(symbol) - Len(suffix)) : IsUpperLetter(symbol[i])

\* _CRYPTO_PAIR_RE.match(symbol): ^[A-Z]{3,10}(USDT|BTC|BUSD)$
_CRYPTO_PAIR_RE(symbol) ==
    \E suffix \in {USDT, BTC, BUSD} :
        /\ EndsWith(symbol, suffix)
        /\ Len(symbol) - Len(suffix) \in 3..10
        /\ \A i \in 1..(Len(symbol) - Len(suffix)) : IsUpperLetter(symbol[i])

\* `cached and now - cached[0] < _CACHE_TTL`, cached = cache.get(key)
CacheGet(cache, key) == IF key \in DOMAIN cache THEN Some(cache[key]) ELSE Nil
\* Variant: an entry never expires.
CacheFreshForever(cached, now) == cached # Nil
CacheFresh(cached, now) == cached # Nil /\ now - Val(cached)[1] < CACHE_TTL_SEC
CachePut(cache, key, entry) == (key :> entry) @@ cache

\* _get_security_tables(ticker) at time now, resp being what the securities
\* endpoint answers if it is asked.  outcome: "ok", "_NotFoundError" or
\* "RequestException".
_get_security_tables(ticker, cache, now, resp) ==
    LET key == Upper(ticker)
        cached == CacheGet(cache, key)
        req == <<Req("moex_securities", resp)>>
    IN  IF CacheFresh(cached, now)
        THEN [outcome |-> "ok", tables |-> Val(cached)[2], cache |-> cache, log |-> <<>>]
        ELSE IF resp.exc
        THEN [outcome |-> "RequestException", tables |-> <<>>, cache |-> cache, log |-> req]
        ELSE IF resp.status = 404
        THEN [outcome |-> "_NotFoundError", tables |-> <<>>, cache |-> cache, log |-> req]
        ELSE IF RaisesForStatus(resp)
        THEN [outcome |-> "RequestException", tables |-> <<>>, cache |-> cache, log |-> req]
        ELSE LET tables == _parse_iss_tables(resp.json)
             IN  [outcome |-> "ok", tables |-> tables,
                  cache |-> CachePut(cache, key, <<now, tables>>), log |-> req]

\* _pick_traded_board: the first row whose flag is true, else None
RowTraded(row) ==
    LET value == IF Get(row, "is_traded") = Null THEN Get(row, "IS_TRADED")
                 ELSE Get(row, "is_traded")
    IN  _is_true(value)

\* Variant: the last flagged row wins.
PickLastTraded(rows) ==
    LET traded == {i \in 1..Len(rows) : RowTraded(rows[i])}
    IN  IF traded = {} THEN Nil ELSE Some(rows[Max(traded)])

_pick_traded_board(rows) ==
    LET traded == {i \in 1..Len(rows) : RowTraded(rows[i])}
    IN  IF traded = {} THEN Nil ELSE Some(rows[Min(traded)])

\* str(x) of a JSON scalar the resolver stringifies (a text value)
PyStr(x) == IF x.t = "str" THEN x.v ELSE <<>>

\* Variant: only the preset tickers have an aggregator route.
PresetRouteOnly(ticker, fallback_reason) ==
    IF ticker \in DOMAIN _ALWAYS_AGGREGATOR
    THEN Some(SourceRoute("AGGREGATOR", _ALWAYS_AGGREGATOR[ticker].symbol, Nil, Nil, Nil,
                          Some(_ALWAYS_AGGREGATOR[ticker].reason),
                          Some(_ALWAYS_AGGREGATOR[ticker].currency)))
    ELSE Nil

_aggregator_route(ticker, fallback_reason) ==
    IF ticker \in DOMAIN _ALWAYS_AGGREGATOR
    THEN LET preset == _ALWAYS_AGGREGATOR[ticker]
         IN  Some(SourceRoute("AGGREGATOR", preset.symbol, Nil, Nil, Nil,
                              Some(preset.reason), Some(preset.currency)))
    ELSE Some(SourceRoute("AGGREGATOR", ticker \o DotMOEX, Nil, Nil, Nil,
                          Some(fallback_reason), Some(SUR)))

UnknownRoute(symbol) ==
    SourceRoute("UNKNOWN", symbol, Nil, Nil, Nil, Some("unknown_ticker"), Some(SUR))

\* The MOEX route built from the picked board row (lines 162-172).
MoexBoardRoute(symbol, board_row) ==
    LET code == Upper(PyStr(Or(Or(Get(board_row, "boardid"), Get(board_row, "board")),
                               Str(<<>>))))
        market == Lower(PyStr(Or(Get(board_row, "market"), Str(<<"s","h","a","r","e","s">>))))
        engine == Lower(PyStr(Or(Get(board_row, "engine"), Str(<<"s","t","o","c","k">>))))
    IN  SourceRoute("MOEX", symbol, IF code = <<>> THEN Nil ELSE Some(code),
                    Some(market), Some(engine), Nil, Some(SUR))

\* The outcome of a fallback to the aggregator: the route, or what the
\* resolver does when there is none.
Fallback(symbol, reason, otherwise) ==
    LET fallback == _aggregator_route(symbol, reason)
    IN  IF fallback # Nil THEN [raised |-> Nil, route |-> Val(fallback)] ELSE otherwise

\* Lines 159-188: the route chosen from the boards table and its traded row.
RouteFromBoards(symbol, boards, board_row) ==
    IF board_row # Nil
    THEN [raised |-> Nil, route |-> MoexBoardRoute(symbol, Val(board_row))]
    ELSE IF boards # <<>>
    THEN Fallback(symbol, "no_active_trading_on_moex",
                  [raised |-> Nil,
                   route |-> SourceRoute("MOEX", symbol, Nil, Nil, Nil,
                                         Some("no_active_trading_on_moex"), Some(SUR))])
    ELSE Fallback(symbol, "unknown_ticker",
                  [raised |-> Nil, route |-> UnknownRoute(symbol)])

\* Lines 145-188: the route once _get_security_tables(symbol) has ended in got.
ResolveListed(symbol, got) ==
    [cache |-> got.cache, log |-> got.log] @@
    (IF got.outcome = "_NotFoundError"
     THEN Fallback(symbol, "unknown_ticker",
                   [raised |-> Nil, route |-> UnknownRoute(symbol)])
     ELSE IF got.outcome = "RequestException"
     THEN Fallback(symbol, "moex_unavailable",
                   [raised |-> Some("MarketDataError"), route |-> UnknownRoute(symbol)])
     ELSE RouteFromBoards(symbol, TableOrEmpty(got.tables, "boards"),
                          _pick_traded_board(TableOrEmpty(got.tables, "boards"))))

\* Lines 126-188: resolve_source once symbol = ticker.upper().strip().
ResolveSymbol(symbol, cache, now, resp) ==
    IF symbol = <<>>
    THEN [raised |-> Nil, cache |-> cache, log |-> <<>>,
          route |-> SourceRoute("UNKNOWN", <<>>, Nil, Nil, Nil,
                                Some("unknown_ticker"), Some(SUR))]
    ELSE IF symbol \in DOMAIN _ALWAYS_AGGREGATOR
    THEN [raised |-> Nil, cache |-> cache, log |-> <<>>,
          route |-> SourceRoute("AGGREGATOR", _ALWAYS_AGGREGATOR[symbol].symbol,
                                Nil, Nil, Nil,
                                Some(_ALWAYS_AGGREGATOR[symbol].reason),
                                Some(_ALWAYS_AGGREGATOR[symbol].currency))]
    ELSE IF _CRYPTO_PAIR_RE(symbol)
    THEN [raised |-> Nil, cache |-> cache, log |-> <<>>,
          route |-> SourceRoute("BINANCE", symbol, Nil, Nil, Nil, Nil,
                                Some(IF EndsWith(symbol, USDT) THEN USDT ELSE USD))]
    ELSE ResolveListed(symbol, _get_security_tables(symbol, cache, now, resp))

\* resolve_source(ticker) at time now; resp is the answer of the securities
\* endpoint if asked.  Result: the route (or the exception raised), the
\* security cache afterwards and the requests made.
resolve_source(ticker, cache, now, resp) ==
    ResolveSymbol(Strip(Upper(ticker)), cache, now, resp)

-----------------------------------------------------------------------------
(* Field extraction from market-data rows *)

\* The first option of a sequence that is not None (a `for field in ...` loop
\* that returns at the first usable value).
FirstSome(options) ==
    LET hit == {i \in 1..Len(options) : options[i] # Nil}
    IN  IF hit = {} THEN Nil ELSE options[Min(hit)]

\* Variant: any number but zero is a price.
NonZeroFloat(x) ==
    LET value == _safe_float(x)
    IN  IF value # Nil /\ Val(value) # 0 THEN value ELSE Nil

\* Lines 767-769: the number of a field when it is greater than zero
PositiveFloat(x) ==
    LET value == _safe_float(x)
    IN  IF value # Nil /\ Val(value) > 0 THEN value ELSE Nil

_extract_price(row) ==
    LET fields == <<"LAST", "LCURRENTPRICE", "MARKETPRICE3", "MARKETPRICE",
                    "LASTTOPREVPRICE", "CLOSE">>
    IN  FirstSome([i \in 1..Len(fields) |-> PositiveFloat(Get(row, fields[i]))])

\* int(float(raw)) of a LOTSIZE value that is not None, kept when positive
LotOf(x) ==
    LET f == CASE x.t = "null" -> Nil
               [] x.t = "num"  -> Some(x.v)
               [] x.t = "bool" -> Some(IF x.v THEN 1 ELSE 0)
               [] x.t = "str"  -> ParseFloat(Strip(x.v))
    IN  IF f # Nil /\ Val(f) > 0 THEN f ELSE Nil

_extract_lot(sec_row, md_row) ==
    IF LotOf(Get(md_row, "LOTSIZE")) # Nil THEN LotOf(Get(md_row, "LOTSIZE"))
    ELSE LotOf(Get(sec_row, "LOTSIZE"))

\* An ISO date-time text for the instant n is written "T" followed by the
\* digits of n; any other text is not a date-time.
ParseIsoTime(s) ==
    IF Len(s) >= 2 /\ s[1] = "T" /\ \A i \in 2..Len(s) : IsDigit(s[i])
    THEN Some(ParseDigits(Tail(s)))
    ELSE Nil

\* One field of _extract_timestamp: None when the field is skipped.
TimeOf(x) ==
    IF ~Truthy(x) THEN Nil
    ELSE CASE x.t = "num"  -> Some(x.v)
           [] x.t = "bool" -> Some(1)
           [] x.t = "str"  -> ParseIsoTime(Strip(x.v))

_extract_timestamp(row) ==
    LET fields == <<"SYSTIME", "TIME", "UPDATETIME", "DATETIME">>
    IN  FirstSome([i \in 1..Len(fields) |-> TimeOf(Get(row, fields[i]))])

\* _to_iso
_to_iso(x) ==
    CASE x.t = "null" -> Nil
      [] x.t = "num"  -> Some(x.v)
      [] x.t = "bool" -> Some(IF x.v THEN 1 ELSE 0)
      [] x.t = "str"  -> ParseIsoTime(Strip(x.v))

CurrencyOf(x) ==
    IF ~Truthy(x) THEN Nil
    ELSE LET code == Upper(PyStr(x))
         IN  IF code \in {<<"R","U","B">>, SUR} THEN Some(SUR) ELSE Some(code)

_extract_currency(sec_row, md_row) ==
    LET keys == <<"FACEUNIT", "CURRENCYID", "SETTLECURRENCY">>
        found == FirstSome([i \in 1..6 |->
                    CurrencyOf(Get(IF i <= 3 THEN sec_row ELSE md_row,
                                   keys[IF i <= 3 THEN i ELSE i - 3]))])
    IN  OrElse(found, SUR)

RowOnBoard(row, target) ==
    \E key \in {"BOARDID", "BOARD"} :
        Truthy(Get(row, key)) /\ Upper(PyStr(Get(row, key))) = target

_find_row_by_board(rows, board) ==
    LET found == {i \in 1..Len(rows) : RowOnBoard(rows[i], Upper(board))}
    IN  IF found = {} THEN Nil ELSE Some(rows[Min(found)])

\* {} : the empty dict
EmptyRow == [f \in {} |-> Null]

-----------------------------------------------------------------------------
(* Quotes and the fetchers *)

Quote(ticker, price, currency, ts_utc, source, board, market, reason, lot, change, volume, value, context) ==
    [ticker |-> ticker, price |-> price, currency |-> currency, ts_utc |-> ts_utc,
     source |-> source, board |-> board, market |-> market, reason |-> reason,
     lot |-> lot, change |-> change, volume |-> volume, value |-> value,
     context |-> context]

Returned(quote, cache, log) ==
    [raised |-> Nil, quote |-> Some(quote), cache |-> cache, log |-> log]
Raised(exc, cache, log) ==
    [raised |-> Some(exc), quote |-> Nil, cache |-> cache, log |-> log]

\* Variant: only the CLOSE column is read.
CloseFieldOnly(row) == _safe_float(Get(row, "CLOSE"))

\* Lines 249-254: the close of the last history row
DailyClose(row) ==
    LET fields == <<"CLOSE", "LEGALCLOSEPR", "LCLOSEPRICE">>
    IN  FirstSome([i \in 1..Len(fields) |-> _safe_float(Get(row, fields[i]))])

\* get_daily_close_moex: the close, None, or the exception raised
get_daily_close_moex(resp) ==
    LET log == <<Req("moex_history", resp)>>
        rows == TableOrEmpty(_parse_iss_tables(resp.json), "history")
    IN  IF resp.exc THEN [raised |-> Nil, close |-> Nil, log |-> log]
        ELSE IF resp.status = 404 THEN [raised |-> Nil, close |-> Nil, log |-> log]
        ELSE IF RaisesForStatus(resp)
        THEN [raised |-> Some("RequestException"), close |-> Nil, log |-> log]
        ELSE IF rows = <<>> THEN [raised |-> Nil, close |-> Nil, log |-> log]
        ELSE [raised |-> Nil,
              close |-> DailyClose(rows[Len(rows)]),
              log |-> log]

\* Lines 443-486: the quote built from the security row and the market-data
\* row; log holds the requests made so far.
MoexQuoteFromRows(ticker, route, cache, now, w, log, sec_row, md_row) ==
    LET price == _extract_price(md_row)
        lot == _extract_lot(sec_row, md_row)
        timestamp == _extract_timestamp(md_row)
        change == _safe_float(Get(md_row, "LASTCHANGEPRCNT"))
        volume == _safe_float(Get(md_row, "VOLTODAY"))
        value == _safe_float(Get(md_row, "VALTODAY"))
        currency == _extract_currency(sec_row, md_row)
        eod == get_daily_close_moex(w.eod)
    IN  IF price # Nil
        THEN Returned(Quote(ticker, price, currency, (IF timestamp # Nil THEN timestamp ELSE Some(now)),
                            "MOEX", route.board, route.market, route.reason, lot, change,
                            volume, value, Nil), cache, log)
        ELSE IF eod.raised # Nil
        THEN Raised(Val(eod.raised), cache, log \o eod.log)
        ELSE IF eod.close = Nil
        THEN Returned(Quote(ticker, Nil, currency, Nil, "MOEX", route.board,
                            route.market,
                            Some(OrElse(route.reason, "no_trades_no_history")),
                            lot, change, volume, value, Nil),
                      cache, log \o eod.log)
        ELSE Returned(Quote(ticker, eod.close, currency, (IF timestamp # Nil THEN timestamp ELSE Some(now)),
                            "MOEX", route.board, route.market, Some("eod_close_fallback"),
                            lot, change, volume, value, Nil),
                      cache, log \o eod.log)

\* `securities[0] if securities else {}`
FirstRowOrEmpty(rows) == IF rows # <<>> THEN rows[1] ELSE EmptyRow

\* Line 441: the row of the board, else the first row, else {}.
MarketDataRow(marketdata, on_board) ==
    IF on_board # Nil THEN Val(on_board) ELSE FirstRowOrEmpty(marketdata)

\* Lines 439-441
MarketDataRowOf(marketdata, board) ==
    MarketDataRow(marketdata, _find_row_by_board(marketdata, board))

\* Lines 427-486: _get_moex_quote once _get_security_tables(ticker) has
\* ended in got.
MoexQuoteWithTables(ticker, route, now, w, got) ==
    IF got.outcome # "ok" THEN Raised(got.outcome, got.cache, got.log)
    ELSE IF w.md.exc \/ RaisesForStatus(w.md)
    THEN Raised("RequestException", got.cache,
                got.log \o <<Req("moex_marketdata", w.md)>>)
    ELSE MoexQuoteFromRows(ticker, route, got.cache, now, w,
                           got.log \o <<Req("moex_marketdata", w.md)>>,
                           FirstRowOrEmpty(TableOrEmpty(got.tables, "securities")),
                           MarketDataRowOf(TableOrEmpty(_parse_iss_tables(w.md.json),
                                                        "marketdata"),
                                           Val(route.board)))

\* _get_moex_quote(ticker, route) at time now; w gives the answers of the
\* endpoints it may ask (w.sec2: securities, w.md: market data, w.eod: history).
_get_moex_quote(ticker, route, cache, now, w) ==
    IF route.board = Nil \/ route.market = Nil
    THEN Returned(Quote(ticker, Nil, OrElse(route.currency, SUR), Nil, "MOEX",
                        route.board, route.market,
                        Some(OrElse(route.reason, "no_active_trading_on_moex")),
                        Nil, Nil, Nil, Nil, Nil), cache, <<>>)
    ELSE MoexQuoteWithTables(ticker, route, now, w,
                             _get_security_tables(ticker, cache, now, w.sec2))

\* _get_binance_quote
_get_binance_quote(ticker, route, cache, now, w) ==
    LET log == <<Req("binance", w.bin)>>
        price == _safe_float(Get(w.bin.json, "price"))
    IN  IF w.bin.exc \/ RaisesForStatus(w.bin) THEN Raised("RequestException", cache, log)
        ELSE IF price = Nil THEN Raised("MarketDataError", cache, log)
        ELSE Returned(Quote(ticker, price,
                            OrElse(route.currency,
                                   IF EndsWith(route.symbol, USDT) THEN USDT ELSE USD),
                            Some(now), "BINANCE", Nil, Nil, route.reason,
                            Nil, Nil, Nil, Nil, Nil), cache, log)

\* Variant: only an unset key counts as missing.
KeyIsNone(api_key) == api_key = Nil

\* `not api_key`
KeyMissing(api_key) == api_key = Nil \/ Val(api_key) = ""

\* int(code_raw), None on TypeError / ValueError
IntOf(x) ==
    CASE x.t = "null" -> Nil
      [] x.t = "num"  -> Some(x.v)
      [] x.t = "bool" -> Some(IF x.v THEN 1 ELSE 0)
      [] x.t = "str"  -> ParseFloat(Strip(x.v))

\* Variant: the message is searched without lower-casing it.
AuthMessageCaseSensitive(message) ==
    \/ Contains(message, <<"a","p","i"," ","k","e","y">>)
    \/ Contains(message, <<"a","p","i","k","e","y">>)
    \/ Contains(message, <<"u","n","a","u","t","h","o","r","i","z","e","d">>)

AuthMessage(message) ==
    LET lowered == Lower(message)
    IN  \/ Contains(lowered, <<"a","p","i"," ","k","e","y">>)
        \/ Contains(lowered, <<"a","p","i","k","e","y">>)
        \/ Contains(lowered, <<"u","n","a","u","t","h","o","r","i","z","e","d">>)

\* _fetch_twelvedata_quote: outcome "quote", "none" (returns None),
\* "AggregatorAuthError" or "RequestException".
_fetch_twelvedata_quote(ticker, route, api_key, resp) ==
    LET log == <<Req("twelvedata", resp)>>
        payload == resp.json
        code == IntOf(Get(payload, "code"))
        message == PyStr(Or(Get(payload, "message"), Str(<<>>)))
        price == _safe_float(Or(Get(payload, "price"), Get(payload, "close")))
        ts_iso == _to_iso(Or(Get(payload, "datetime"), Get(payload, "timestamp")))
        currency == IF Truthy(Get(payload, "currency"))
                    THEN Upper(PyStr(Get(payload, "currency")))
                    ELSE Upper(OrElse(route.currency, USD))
    IN  IF KeyMissing(api_key)
        THEN [outcome |-> "AggregatorAuthError", quote |-> Nil, log |-> <<>>]
        ELSE IF resp.exc
        THEN [outcome |-> "RequestException", quote |-> Nil, log |-> log]
        ELSE IF resp.status \in {401, 403}
        THEN [outcome |-> "AggregatorAuthError", quote |-> Nil, log |-> log]
        ELSE IF RaisesForStatus(resp)
        THEN [outcome |-> "RequestException", quote |-> Nil, log |-> log]
        ELSE IF Get(payload, "status") = Str(<<"e","r","r","o","r">>)
        THEN IF (code # Nil /\ Val(code) \in {401, 403}) \/ AuthMessage(message)
             THEN [outcome |-> "AggregatorAuthError", quote |-> Nil, log |-> log]
             ELSE [outcome |-> "none", quote |-> Nil, log |-> log]
        ELSE IF price = Nil THEN [outcome |-> "none", quote |-> Nil, log |-> log]
        ELSE [outcome |-> "quote",
              quote |-> Some(Quote(ticker, price, currency, ts_iso, "TWELVEDATA", Nil, Nil,
                                   route.reason, Nil, Nil, Nil, Nil, Nil)),
              log |-> log]

\* Variant: Finnhub is given up without a request.
FinnhubSkipped(ticker, route, api_key, resp) ==
    [outcome |-> "none", quote |-> Nil, log |-> <<>>]

\* _fetch_finnhub_quote: outcome "quote", "none" or "RequestException"
_fetch_finnhub_quote(ticker, route, api_key, resp) ==
    LET log == <<Req("finnhub", resp)>>
        price == _safe_float(Get(resp.json, "c"))
    IN  IF KeyMissing(api_key) THEN [outcome |-> "none", quote |-> Nil, log |-> <<>>]
        ELSE IF resp.exc \/ RaisesForStatus(resp)
        THEN [outcome |-> "RequestException", quote |-> Nil, log |-> log]
        ELSE IF price = Nil THEN [outcome |-> "none", quote |-> Nil, log |-> log]
        ELSE [outcome |-> "quote",
              quote |-> Some(Quote(ticker, price, OrElse(route.currency, USD),
                                   _to_iso(Get(resp.json, "t")), "FINNHUB", Nil, Nil,
                                   route.reason, Nil, Nil, Nil, Nil, Nil)),
              log |-> log]

\* Variant: the route reason always goes to context.
RouteReasonAsContext(quote, route) == [quote EXCEPT !.context = route.reason]

\* Lines 524-527 / 532-535: how the route reason is merged into a quote.
WithRouteReason(quote, route) ==
    IF route.reason # Nil /\ quote.reason = Nil
    THEN [quote EXCEPT !.reason = route.reason]
    ELSE IF route.reason # Nil /\ quote.reason # route.reason
    THEN [quote EXCEPT !.context = route.reason]
    ELSE quote

\* The degraded quote of lines 512-520, 539-547 and 549-557.
AggregatorDegraded(ticker, route, reason) ==
    Quote(ticker, Nil, OrElse(route.currency, USD), Nil, "TWELVEDATA", Nil, Nil,
          Some(reason), Nil, Nil, Nil, Nil, route.reason)

\* Variant: Finnhub is asked after a credential failure of Twelve Data too.
FinnhubAfterAuthFailure(ticker, route, cache, keys, td, fh) ==
    IF td.outcome = "RequestException"
    THEN Raised("RequestException", cache, td.log)
    ELSE IF td.outcome = "quote"
    THEN Returned(WithRouteReason(Val(td.quote), route), cache, td.log)
    ELSE IF fh.outcome = "RequestException"
    THEN Raised("RequestException", cache, td.log \o fh.log)
    ELSE IF fh.outcome = "quote"
    THEN Returned(WithRouteReason(Val(fh.quote), route), cache, td.log \o fh.log)
    ELSE IF td.outcome = "AggregatorAuthError"
    THEN Returned(AggregatorDegraded(ticker, route, "missing_api_key"), cache,
                  td.log \o fh.log)
    ELSE Returned(AggregatorDegraded(ticker, route, "upstream_unavailable"),
                  cache, td.log \o fh.log)

\* Lines 509-557: td and fh are what the two fetchers end in (fh is looked at
\* only when Twelve Data gave no quote).
AggregatorQuoteFrom(ticker, route, cache, keys, td, fh) ==
    IF td.outcome = "AggregatorAuthError"
    THEN Returned(AggregatorDegraded(ticker, route, "missing_api_key"), cache, td.log)
    ELSE IF td.outcome = "RequestException"
    THEN Raised("RequestException", cache, td.log)
    ELSE IF td.outcome = "quote"
    THEN Returned(WithRouteReason(Val(td.quote), route), cache, td.log)
    ELSE IF fh.outcome = "RequestException"
    THEN Raised("RequestException", cache, td.log \o fh.log)
    ELSE IF fh.outcome = "quote"
    THEN Returned(WithRouteReason(Val(fh.quote), route), cache, td.log \o fh.log)
    ELSE IF KeyMissing(keys.TWELVEDATA_API_KEY) /\ KeyMissing(keys.FINNHUB_API_KEY)
    THEN Returned(AggregatorDegraded(ticker, route, "missing_api_key"),
                  cache, td.log \o fh.log)
    ELSE Returned(AggregatorDegraded(ticker, route, "upstream_unavailable"),
                  cache, td.log \o fh.log)

\* _get_aggregator_quote
_get_aggregator_quote(ticker, route, cache, now, w, keys) ==
    AggregatorQuoteFrom(ticker, route, cache, keys,
                        _fetch_twelvedata_quote(ticker, route, keys.TWELVEDATA_API_KEY, w.td),
                        _fetch_finnhub_quote(ticker, route, keys.FINNHUB_API_KEY, w.fh))

-----------------------------------------------------------------------------
(* get_quote *)

\* The answers the upstream endpoints give during one call, were they asked:
\* sec (securities lookup of the resolver), lat (time that lookup takes),
\* sec2 (securities lookup of the fetcher), md (market data), eod (history),
\* bin (Binance), td (Twelve Data), fh (Finnhub).
NoAnswer == TransportError
NoAnswers == [sec |-> NoAnswer, lat |-> 0, sec2 |-> NoAnswer, md |-> NoAnswer,
              eod |-> NoAnswer, bin |-> NoAnswer, td |-> NoAnswer, fh |-> NoAnswer]

Asked(log, endpoint) == \E i \in 1..Len(log) : log[i].ep = endpoint

\* The Quote of lines 209-216.
UnknownQuote(normalized, route) ==
    Quote(normalized, Nil, OrElse(route.currency, SUR), Nil, "UNKNOWN", Nil, Nil,
          Some(OrElse(route.reason, "unknown_ticker")), Nil, Nil, Nil, Nil, Nil)

\* Variant: every quote is stored.
StoreAnyQuote(cache, cache_key, now, quote) == CachePut(cache, cache_key, <<now, quote>>)

\* Line 218-219: only a quote with a price is stored.
StoreQuote(cache, cache_key, now, quote) ==
    IF quote.price # Nil THEN CachePut(cache, cache_key, <<now, quote>>) ELSE cache

\* Lines 202-216: the fetcher of the route
FetchQuote(normalized, route, cache, now, w, keys) ==
    CASE route.name = "MOEX" -> _get_moex_quote(normalized, route, cache, now, w)
      [] route.name = "BINANCE" -> _get_binance_quote(normalized, route, cache, now, w)
      [] route.name = "AGGREGATOR" ->
            _get_aggregator_quote(normalized, route, cache, now, w, keys)
      [] OTHER -> Returned(UnknownQuote(normalized, route), cache, <<>>)

\* Lines 196-220: res is what resolve_source ended in, now the clock read at
\* line 198, cached the entry of the route's key, got what the fetcher ends in.
\* rlog: the requests of resolve_source, log: all requests of the call.
GetQuoteResult(qcache, res, now, cached, got) ==
    [now |-> now, route |-> res.route, cached |-> cached, rlog |-> res.log] @@
    (IF res.raised # Nil
     THEN [raised |-> res.raised, quote |-> Nil, hit |-> FALSE, log |-> res.log,
           scache |-> res.cache, qcache |-> qcache]
     ELSE IF CacheFresh(cached, now)
     THEN [raised |-> Nil, quote |-> Some(Val(cached)[2]), hit |-> TRUE,
           log |-> res.log, scache |-> res.cache, qcache |-> qcache]
     ELSE IF got.raised # Nil
     THEN [raised |-> got.raised, quote |-> Nil, hit |-> FALSE,
           log |-> res.log \o got.log, scache |-> got.cache, qcache |-> qcache]
     ELSE [raised |-> Nil, quote |-> got.quote, hit |-> FALSE,
           log |-> res.log \o got.log, scache |-> got.cache,
           qcache |-> StoreQuote(qcache, <<res.route.name, res.route.symbol>>, now,
                                 Val(got.quote))])

\* Lines 196-220 at the time now read after resolve_source.
GetQuoteAt(normalized, qcache, keys, w, res, now) ==
    GetQuoteResult(qcache, res, now,
                   CacheGet(qcache, <<res.route.name, res.route.symbol>>),
                   FetchQuote(normalized, res.route, res.cache, now, w, keys))

\* Lines 195-220: the clock has advanced by w.lat if the resolver made a request.
GetQuoteRouted(normalized, qcache, keys, w, res) ==
    GetQuoteAt(normalized, qcache, keys, w, res,
               clock + (IF res.log # <<>> THEN w.lat ELSE 0))

\* Lines 195-220 once normalized = ticker.upper().strip().
GetQuoteNormalized(normalized, qcache, scache, keys, w) ==
    GetQuoteRouted(normalized, qcache, keys, w,
                   resolve_source(normalized, scache, clock, w.sec))

\* get_quote(ticker) started at time `clock` with the caches qcache / scache.
get_quote(ticker, qcache, scache, keys, w) ==
    GetQuoteNormalized(Strip(Upper(ticker)), qcache, scache, keys, w)

-----------------------------------------------------------------------------
(* get_key_rate *)

\* A key rate is a Python float.  The model keeps rates in units of 10^-4:
\* 0.135 is 1350 and 13.50 is 135000.  A JSON number with a fraction is
\* Dec(units) with the same unit; Num(n) stays the JSON integer n.
Units(whole) == whole * 10000

\* float(text) in units of 10^-4 for the decimals of the model: an optional
\* sign, digits, and at most one point followed by up to four digits; any
\* other text raises ValueError (Nil).
DecimalUnits(s) ==
    LET neg == s # <<>> /\ s[1] = "-"
        body == IF neg THEN Tail(s) ELSE s
        dots == {i \in 1..Len(body) : body[i] = "."}
        dot == IF dots = {} THEN Len(body) + 1 ELSE Min(dots)
        whole == SubSeq(body, 1, dot - 1)
        frac == SubSeq(body, dot + 1, Len(body))
        magnitude == Units(ParseDigits(whole))
                        + ParseDigits(SubSeq(frac \o <<"0","0","0","0">>, 1, 4))
    IN  IF /\ Cardinality(dots) <= 1
           /\ whole \o frac # <<>>
           /\ \A i \in 1..Len(whole) : IsDigit(whole[i])
           /\ \A i \in 1..Len(frac) : IsDigit(frac[i])
        THEN Some(IF neg THEN 0 - magnitude ELSE magnitude)
        ELSE Nil

\* _safe_float, the result in units of 10^-4
SafeFloatUnits(x) ==
    CASE x.t = "null" -> Nil
      [] x.t = "str"  -> IF x.v = <<>> THEN Nil
                         ELSE DecimalUnits(Strip([i \in 1..Len(x.v) |->
                                              IF x.v[i] = "," THEN "." ELSE x.v[i]]))
      [] x.t = "num"  -> Some(Units(x.v))
      [] x.t = "dec"  -> Some(x.v)
      [] x.t = "bool" -> Some(Units(IF x.v THEN 1 ELSE 0))

\* Variant: a raw value of exactly 1.5 is taken for a percentage too.
PercentFromThreshold(value) == IF 2 * value >= Units(3) THEN value \div 100 ELSE value

\* `value / 100 if value > 1.5 else value`
NormalizeRate(value) == IF 2 * value > Units(3) THEN value \div 100 ELSE value

\* What a source ends in: the rate (None when it has none) and its request.
SourceResult(rate, log) == [rate |-> rate, log |-> log]

\* Lines 646-658: the first of the fields that is a number, normalised.
RuoniaRate(row) ==
    LET fields == <<"RUONIA", "RUONIAINDEX", "VALUE">>
        value == FirstSome([i \in 1..Len(fields) |-> SafeFloatUnits(Get(row, fields[i]))])
    IN  IF value = Nil THEN Nil ELSE Some(NormalizeRate(Val(value)))

\* `tables.get("ruonia") or tables.get("data") or []`
RuoniaRows(tables) ==
    IF TableOrEmpty(tables, "ruonia") # <<>> THEN TableOrEmpty(tables, "ruonia")
    ELSE TableOrEmpty(tables, "data")

\* Lines 641-658 on the rows of the payload.
RuoniaRateOfRows(rows) == IF rows = <<>> THEN Nil ELSE RuoniaRate(rows[1])

\* _fetch_ruonia_key_rate: _fetch_moex_tables raises RequestException on a
\* transport failure and on an HTTP error status, and the fetcher returns
\* None then.
_fetch_ruonia_key_rate(resp) ==
    IF resp.exc \/ RaisesForStatus(resp)
    THEN SourceResult(Nil, <<Req("ruonia", resp)>>)
    ELSE SourceResult(RuoniaRateOfRows(RuoniaRows(_parse_iss_tables(resp.json))),
                      <<Req("ruonia", resp)>>)

\* Lines 669-675: raw is `payload.get("KeyRate") or payload.get("key_rate")`.
CbrRate(raw) ==
    IF raw.t = "null" \/ (raw.t = "str" /\ raw.v = <<>>) \/ SafeFloatUnits(raw) = Nil
    THEN Nil
    ELSE Some(NormalizeRate(Val(SafeFloatUnits(raw))))

\* _fetch_cbr_key_rate
_fetch_cbr_key_rate(resp) ==
    IF resp.exc \/ RaisesForStatus(resp)
    THEN SourceResult(Nil, <<Req("cbr", resp)>>)
    ELSE SourceResult(CbrRate(Or(Get(resp.json, "KeyRate"), Get(resp.json, "key_rate"))),
                      <<Req("cbr", resp)>>)

\* Variant: both sources are always asked.
BothSourcesAsked(ru, cbr) ==
    [rate |-> IF ru.rate # Nil THEN ru.rate ELSE cbr.rate, log |-> ru.log \o cbr.log,
     source |-> IF ru.rate # Nil THEN "ruonia" ELSE "cbr"]

\* Lines 266-268: ru and cbr are what the two fetchers end in; the second is
\* called only when the first returned None.
FirstSourceWithRate(ru, cbr) ==
    IF ru.rate # Nil THEN [rate |-> ru.rate, log |-> ru.log, source |-> "ruonia"]
    ELSE [rate |-> cbr.rate, log |-> ru.log \o cbr.log, source |-> "cbr"]

\* Variant: the fallback is returned but not stored.
FallbackNotStored(cache, fallback, now) ==
    IF fallback # Nil
    THEN [raised |-> Nil, rate |-> fallback, cache |-> cache, source |-> "fallback"]
    ELSE IF cache # Nil
    THEN [raised |-> Nil, rate |-> Some(Val(cache)[2]), cache |-> cache, source |-> "stale"]
    ELSE [raised |-> Some("MarketDataError"), rate |-> Nil, cache |-> cache,
          source |-> "none"]

\* Variant: without a fallback the call fails even when a value is cached.
RaiseWithoutFallback(cache, fallback, now) ==
    IF fallback # Nil
    THEN [raised |-> Nil, rate |-> fallback, cache |-> Some(<<now, Val(fallback)>>),
          source |-> "fallback"]
    ELSE [raised |-> Some("MarketDataError"), rate |-> Nil, cache |-> cache,
          source |-> "none"]

\* Lines 270-284 when neither source gave a rate: the configured fallback
\* (stored in the cache like a fetched rate), else the cached value whatever
\* its age (the cache is left as it is), else MarketDataError.
WithoutSources(cache, fallback, now) ==
    IF fallback # Nil
    THEN [raised |-> Nil, rate |-> fallback, cache |-> Some(<<now, Val(fallback)>>),
          source |-> "fallback"]
    ELSE IF cache # Nil
    THEN [raised |-> Nil, rate |-> Some(Val(cache)[2]), cache |-> cache, source |-> "stale"]
    ELSE [raised |-> Some("MarketDataError"), rate |-> Nil, cache |-> cache,
          source |-> "none"]

\* Lines 266-284: got is what the sources gave.
KeyRateFetched(cache, fallback, now, got) ==
    [log |-> got.log, hit |-> FALSE] @@
    (IF got.rate # Nil
     THEN [raised |-> Nil, rate |-> got.rate, cache |-> Some(<<now, Val(got.rate)>>),
           source |-> got.source]
     ELSE WithoutSources(cache, fallback, now))

\* get_key_rate() at time now with the cache and the configured fallback; w
\* gives the answers of the two sources.
get_key_rate(cache, fallback, now, w) ==
    IF cache # Nil /\ now - Val(cache)[1] < KEY_RATE_TTL
    THEN [raised |-> Nil, rate |-> Some(Val(cache)[2]), cache |-> cache,
          source |-> "cache", log |-> <<>>, hit |-> TRUE]
    ELSE KeyRateFetched(cache, fallback, now,
                        FirstSourceWithRate(_fetch_ruonia_key_rate(w.ru),
                                            _fetch_cbr_key_rate(w.cbr)))

-----------------------------------------------------------------------------
(* get_security_history *)

\* _market_candidates: the (engine, market) pairs to try for a board
BoardCandidates ==
    (<<"T","Q","B","R">> :> << <<"stock", "shares">> >>)
 @@ (<<"T","Q","T","D">> :> << <<"stock", "shares">> >>)
 @@ (<<"S","M","A","L">> :> << <<"stock", "shares">> >>)
 @@ (<<"F","Q","B","R">> :> << <<"stock", "shares">> >>)
 @@ (<<"T","Q","T","F">> :> << <<"stock", "etf">>, <<"stock", "shares">> >>)
 @@ (<<"T","Q","O","B">> :> << <<"stock", "bonds">> >>)
 @@ (<<"T","Q","C","B">> :> << <<"stock", "bonds">> >>)
 @@ (<<"T","Q","O","D">> :> << <<"stock", "bonds">> >>)
 @@ (<<"S","N","D","X">> :> << <<"stock", "index">> >>)
 @@ (<<"T","O","M">> :> << <<"currency", "selt">>, <<"currency", "spot">> >>)
DefaultCandidates ==
    << <<"stock", "shares">>, <<"stock", "etf">>, <<"stock", "bonds">>,
       <<"stock", "index">>, <<"currency", "selt">> >>
_market_candidates(board) ==
    IF Upper(board) \in DOMAIN BoardCandidates THEN BoardCandidates[Upper(board)]
    ELSE DefaultCandidates

\* One request of get_security_history: the candidate, the ticker as put in
\* the URL, the `start` parameter and the answer.
HistoryReq(route, ticker, start, resp) ==
    [ep |-> "moex_history_pages", engine |-> route[1], market |-> route[2],
     ticker |-> ticker, start |-> start, resp |-> resp]

\* The answer to the n-th request of a call: w lists the answers in request
\* order.
AnswerAt(w, n) == IF n <= Len(w) THEN w[n] ELSE NoAnswer

\* `tables.get("history") or []`
HistoryRows(resp) == TableOrEmpty(_parse_iss_tables(resp.json), "history")

\* Variant: one page per candidate.
SinglePage(rows, collected, days) == TRUE

\* Variant: paging goes on until more than `days` rows are accumulated.
LastPageBeyondDays(rows, collected, days) == Len(rows) < FullPage \/ Len(collected) > days

\* Line 404: the page just added was the last one.
LastPage(rows, collected, days) == Len(rows) < FullPage \/ Len(collected) >= days

\* Variant: a candidate that gave less than a full page does not end the
\* search, and the next candidate adds its rows.
YieldedFullPage(collected) == Len(collected) >= FullPage

\* Line 408: `if collected: break`
CandidateYielded(collected) == collected # <<>>

\* Lines 381-406: the while loop of one candidate from offset start, with
\* the rows collected and the requests made so far.
RECURSIVE PageLoop(_, _, _, _, _, _, _), PageFetched(_, _, _, _, _, _, _, _)
PageLoop(route, ticker, days, w, collected, log, start) ==
    PageFetched(route, ticker, days, w, collected, log, start, AnswerAt(w, Len(log) + 1))

PageFetched(route, ticker, days, w, collected, log, start, resp) ==
    IF resp.exc \/ RaisesForStatus(resp)
    THEN [collected |-> collected, log |-> Append(log, HistoryReq(route, ticker, start, resp))]
    ELSE IF HistoryRows(resp) = <<>>
    THEN [collected |-> collected, log |-> Append(log, HistoryReq(route, ticker, start, resp))]
    ELSE IF LastPage(HistoryRows(resp), collected \o HistoryRows(resp), days)
    THEN [collected |-> collected \o HistoryRows(resp),
          log |-> Append(log, HistoryReq(route, ticker, start, resp))]
    ELSE PageLoop(route, ticker, days, w, collected \o HistoryRows(resp),
                  Append(log, HistoryReq(route, ticker, start, resp)),
                  start + Len(HistoryRows(resp)))

\* Lines 376-409: the loop over the candidates from the i-th on.
RECURSIVE CandidateLoop(_, _, _, _, _, _, _), AfterCandidate(_, _, _, _, _, _)
CandidateLoop(routes, i, ticker, days, w, collected, log) ==
    IF i > Len(routes) THEN [collected |-> collected, log |-> log]
    ELSE AfterCandidate(routes, i, ticker, days, w,
                        PageLoop(routes[i], ticker, days, w, collected, log, 0))

AfterCandidate(routes, i, ticker, days, w, r) ==
    IF CandidateYielded(r.collected) THEN r
    ELSE CandidateLoop(routes, i + 1, ticker, days, w, r.collected, r.log)

\* Variant: the cache is not consulted.
HistoryNeverFresh(cached, now) == FALSE

\* Line 369: `cached and now - cached[0] < timedelta(minutes=10)`
HistoryFresh(cached, now) == cached # Nil /\ now - Val(cached)[1] < HISTORY_TTL

\* Lines 372-412 on a cache miss: r is what the loops end in.
HistoryCollected(cache, key, now, r) ==
    [rows |-> r.collected, log |-> r.log, hit |-> FALSE,
     cache |-> CachePut(cache, key, <<now, r.collected>>)]

\* Lines 365-412 with the cache key and the entry found under it.
HistoryLookup(ticker, board, days, cache, now, w, key, cached) ==
    IF HistoryFresh(cached, now)
    THEN [rows |-> Val(cached)[2], log |-> <<>>, hit |-> TRUE, cache |-> cache]
    ELSE HistoryCollected(cache, key, now,
                          CandidateLoop(_market_candidates(board), 1, ticker, days, w,
                                        <<>>, <<>>))

\* Lines 365-412 with the cache key.
HistoryKeyed(ticker, board, days, cache, now, w, key) ==
    HistoryLookup(ticker, board, days, cache, now, w, key, CacheGet(cache, key))

\* get_security_history(ticker, board, days) at time now; w lists the
\* answers of the history endpoint in request order.
get_security_history(ticker, board, days, cache, now, w) ==
    HistoryKeyed(ticker, board, days, cache, now, w, <<Upper(ticker), Upper(board), days>>)

-----------------------------------------------------------------------------
(* get_index_value *)

\* Variant: the cache is keyed by the name as given.
NameAsGiven(name) == name

\* Line 325: key = name.upper()
IndexKey(name) == Upper(name)

\* Line 328: a stored value younger than _INDEX_CACHE_TTL.
IndexFresh(cached, now) == cached # Nil /\ now - Val(cached)[1] < INDEX_TTL

\* Line 341: tables.get("securities") or tables.get("index") or []
IndexRows(tables) ==
    IF TableOrEmpty(tables, "securities") # <<>> THEN TableOrEmpty(tables, "securities")
    ELSE TableOrEmpty(tables, "index")

\* Lines 346-350: the first of CURRENTVALUE, LASTVALUE, VALUE that
\* _safe_float accepts (a value in units of 10^-4).
IndexValueOf(row) ==
    IF SafeFloatUnits(Get(row, "CURRENTVALUE")) # Nil THEN SafeFloatUnits(Get(row, "CURRENTVALUE"))
    ELSE IF SafeFloatUnits(Get(row, "LASTVALUE")) # Nil THEN SafeFloatUnits(Get(row, "LASTVALUE"))
    ELSE SafeFloatUnits(Get(row, "VALUE"))

\* What a get_index_value call ends in.
IndexResult(raised, value, cache, log, hit) ==
    [raised |-> raised, value |-> value, cache |-> cache, log |-> log, hit |-> hit]

\* Variant: a failed request raises also when a value is stored.
FailureAlwaysRaises(cache, cached, log) ==
    IndexResult(Some("RequestException"), Nil, cache, log, FALSE)

\* Lines 334-339: the request raised requests.RequestException.
IndexRequestFailed(cache, cached, log) ==
    IF cached # Nil THEN IndexResult(Nil, Some(Val(cached)[2]), cache, log, FALSE)
    ELSE IndexResult(Some("RequestException"), Nil, cache, log, FALSE)

\* Lines 352-356 with the value found in the first row.
IndexValueFound(cache, key, now, log, value) ==
    IF value = Nil THEN IndexResult(Some("MarketDataError"), Nil, cache, log, FALSE)
    ELSE IndexResult(Nil, value, CachePut(cache, key, <<now, Val(value)>>), log, FALSE)

\* Lines 341-356 with the rows of the answer.
IndexParsed(cache, key, now, log, rows) ==
    IF rows = <<>> THEN IndexResult(Some("MarketDataError"), Nil, cache, log, FALSE)
    ELSE IndexValueFound(cache, key, now, log, IndexValueOf(rows[1]))

\* Lines 331-356: the request is made and answered by resp.
IndexFetched(cache, key, cached, now, resp, log) ==
    IF resp.exc \/ RaisesForStatus(resp) THEN IndexRequestFailed(cache, cached, log)
    ELSE IndexParsed(cache, key, now, log, IndexRows(_parse_iss_tables(resp.json)))

\* Lines 326-356 with the key and the entry stored under it.
IndexLookup(cache, key, cached, now, resp) ==
    IF IndexFresh(cached, now) THEN IndexResult(Nil, Some(Val(cached)[2]), cache, <<>>, TRUE)
    ELSE IndexFetched(cache, key, cached, now, resp,
                      <<[ep |-> "moex_index", key |-> key, resp |-> resp]>>)

IndexKeyed(cache, key, now, resp) == IndexLookup(cache, key, CacheGet(cache, key), now, resp)

\* get_index_value(name) at time now; resp is what the index endpoint
\* answers if it is asked.
get_index_value(name, cache, now, resp) == IndexKeyed(cache, IndexKey(name), now, resp)

-----------------------------------------------------------------------------
(* formatting.describe_quote_reason *)

\* _QUOTE_REASON_MESSAGES (formatting.py 174-186); the Russian notes are
\* written in Latin letters.
_QUOTE_REASON_MESSAGES ==
    [no_active_trading_on_moex |-> "torgi na MOEX ne aktivny, pokazana alternativnaya kotirovka",
     delisted_from_moex |-> "instrument delistingovan na MOEX",
     moex_delisting_announced |-> "MOEX obyavil delisting, ispolzuem vneshniy istochnik",
     eod_close_fallback |-> "net sdelok seychas, pokazano zakrytie dnya",
     stale_price |-> "ispolzovana poslednyaya dostupnaya tsena s MOEX",
     no_trades_no_history |-> "net svezhikh sdelok i istorii po instrumentu",
     missing_api_key |-> "net API klyucha dlya agregatora",
     upstream_unavailable |-> "vneshniy istochnik vremenno nedostupen",
     unknown_ticker |-> "tiker ne nayden u postavshchika",
     moex_unavailable |-> "MOEX vremenno nedostupen, pokazana alternativnaya kotirovka",
     not_available_in_tbank |-> "instrument nedostupen v T-Banke"]

\* Variant: a table that does not know the code of an unreachable exchange.
MessagesWithoutUnavailable ==
    [c \in DOMAIN _QUOTE_REASON_MESSAGES \ {"moex_unavailable"} |-> _QUOTE_REASON_MESSAGES[c]]

\* The table describe_quote_reason reads.
ReasonMessages == _QUOTE_REASON_MESSAGES

\* Lines 194-198 for one code: the messages with the text of the code added
\* unless the code is empty, unknown or its text is already there.
AddReasonText(messages, code) ==
    IF code = Nil \/ code = Some("") THEN messages
    ELSE IF Val(code) \notin DOMAIN ReasonMessages THEN messages
    ELSE IF ReasonMessages[Val(code)] = "" THEN messages
    ELSE IF \E i \in 1..Len(messages) : messages[i] = ReasonMessages[Val(code)] THEN messages
    ELSE Append(messages, ReasonMessages[Val(code)])

\* Lines 199-201: None without messages, else the messages joined by "; "
\* (kept as the list of the joined texts).
JoinedNote(messages) == IF messages = <<>> THEN Nil ELSE Some(messages)

\* describe_quote_reason(reason, context)
describe_quote_reason(reason, context) ==
    JoinedNote(AddReasonText(AddReasonText(<<>>, reason), context))

-----------------------------------------------------------------------------
(* brokers/tinkoff_filter.py: the T-Bank universe *)

\* Variant: the text after ';' is kept.
KeepSuffix(symbol) == symbol

\* Lines 24-25: symbol.split(";", 1)[0].strip().upper() when ';' occurs.
DropSuffix(symbol) ==
    IF \E i \in 1..Len(symbol) : symbol[i] = ";"
    THEN Upper(Strip(SubSeq(symbol, 1, Min({i \in 1..Len(symbol) : symbol[i] = ";"}) - 1)))
    ELSE symbol

\* Lines 21-26 with value.strip().upper()
NormalizedOrNone(symbol) ==
    IF symbol = <<>> THEN Nil
    ELSE IF DropSuffix(symbol) = <<>> THEN Nil ELSE Some(DropSuffix(symbol))

\* _normalize_symbol(value): value is None (Nil) or a str
_normalize_symbol(value) ==
    IF value = Nil \/ value = Some(<<>>) THEN Nil
    ELSE NormalizedOrNone(Upper(Strip(Val(value))))

\* Line 32: {key: set() for key in _ALLOWED_KEYS}
EmptyUniverse == [STOCKS |-> {}, BONDS |-> {}, ETFS |-> {}]
BucketKeys == <<"S","T","O","C","K","S">> :> "STOCKS" @@ <<"B","O","N","D","S">> :> "BONDS"
                @@ <<"E","T","F","S">> :> "ETFS"

\* Lines 51-54: the items of one section added to its bucket.
RECURSIVE AddItems(_, _, _)
AddItems(bucket, items, i) ==
    IF i > Len(items) THEN bucket
    ELSE IF _normalize_symbol(items[i]) = Nil THEN AddItems(bucket, items, i + 1)
    ELSE AddItems(bucket \cup {Val(_normalize_symbol(items[i]))}, items, i + 1)

\* Lines 42-54 for one section: its key is stripped and upper-cased, a key
\* outside _ALLOWED_KEYS is skipped.
AddSection(universe, entry, key) ==
    IF key \notin DOMAIN BucketKeys THEN universe
    ELSE [universe EXCEPT ![BucketKeys[key]] = AddItems(@, entry.values, 1)]

\* Lines 42-55: the loop over the sections of the file.
RECURSIVE AddSections(_, _, _)
AddSections(universe, entries, i) ==
    IF i > Len(entries) THEN universe
    ELSE AddSections(AddSection(universe, entries[i], Upper(Strip(entries[i].key))),
                     entries, i + 1)

\* load_universe(path): file is Nil when the path does not exist, else the
\* file with its parsed YAML (data.kind is "dict", or "other" for a document
\* that is empty or not a mapping).
load_universe(file) ==
    IF file = Nil THEN EmptyUniverse
    ELSE IF Val(file).data.kind # "dict" THEN EmptyUniverse
    ELSE AddSections(EmptyUniverse, Val(file).data.entries, 1)

\* What _load_configured_universe leaves in _UNIVERSE_CACHE and returns.
UniverseLoaded(cache) ==
    [cache |-> Some(cache), universe |-> cache.universe, strict |-> cache.strict]

\* Variant: a universe is loaded once and kept whatever the file's time.
CachedIfAny(cache, path, mtime) == cache = Nil

\* Lines 81-85: the cached universe is of another path or another time.
UniverseStale(cache, path, mtime) ==
    cache = Nil \/ Val(cache).path # path \/ Val(cache).mtime # mtime

\* _load_configured_universe(): path is settings.TINKOFF_UNIVERSE_PATH and
\* file what is at that path.
_load_configured_universe(cache, path, file) ==
    IF file = Nil
    THEN UniverseLoaded([path |-> path, mtime |-> 0, universe |-> EmptyUniverse,
                         strict |-> FALSE])
    ELSE IF UniverseStale(cache, path, Val(file).mtime)
    THEN UniverseLoaded([path |-> path, mtime |-> Val(file).mtime,
                         universe |-> load_universe(file), strict |-> TRUE])
    ELSE UniverseLoaded(Val(cache))

\* _bucket_name(sec_type)
_bucket_name(sec_type) ==
    IF Lower(sec_type) = <<"b","o","n","d">> THEN "BONDS"
    ELSE IF Lower(sec_type) = <<"e","t","f">> THEN "ETFS"
    ELSE "STOCKS"

SecurityTypes == {<<"s","t","o","c","k">>, <<"b","o","n","d">>, <<"e","t","f">>}

\* What is_tradable ends in: the answer and the cache it leaves.
Tradable(answer, cache) == [answer |-> answer, cache |-> cache]

\* Variant: an empty bucket allows every symbol.
EmptyBucketAllows(symbol, bucket) == bucket = {} \/ symbol \in bucket

\* Lines 117-120: `if not bucket: return False`, else `symbol in bucket`
InBucket(symbol, bucket) == bucket # {} /\ symbol \in bucket

\* Lines 113-120 with what _load_configured_universe gave.
TradableIn(symbol, sec_type, loaded) ==
    IF ~loaded.strict THEN Tradable(TRUE, loaded.cache)
    ELSE Tradable(InBucket(symbol, loaded.universe[_bucket_name(sec_type)]), loaded.cache)

\* Lines 105-120 with the normalized symbol and type.
TradableSymbol(symbol, sec_type, cache, path, file) ==
    IF symbol = Nil THEN Tradable(FALSE, cache)
    ELSE IF sec_type \notin SecurityTypes THEN Tradable(TRUE, cache)
    ELSE TradableIn(Val(symbol), sec_type, _load_configured_universe(cache, path, file))

\* is_tradable(ticker, sec_type)
is_tradable(ticker, sec_type, cache, path, file) ==
    TradableSymbol(_normalize_symbol(Some(ticker)), Lower(sec_type), cache, path, file)

-----------------------------------------------------------------------------
(* strategy.py: propose_allocation *)

\* PortfolioAsset(label, tag, weight, type, ticker, board); weights are in
\* hundredths.
PortfolioAsset(label, tag, weight, ticker, board) ==
    [label |-> label, tag |-> tag, weight |-> weight, type |-> "security",
     ticker |-> Some(ticker), board |-> Some(board)]
CashAsset(weight) ==
    [label |-> "Rezerv (nalichnye)", tag |-> "cash", weight |-> weight, type |-> "cash",
     ticker |-> Nil, board |-> Nil]

PORTFOLIO_TEMPLATES ==
    [conservative |->
        << CashAsset(25),
           PortfolioAsset("FXMM", "bonds", 20, <<"F","X","M","M">>, "TQTF"),
           PortfolioAsset("SBGB", "bonds", 20, <<"S","B","G","B">>, "TQTF"),
           PortfolioAsset("SBER", "dividends", 10, <<"S","B","E","R">>, "TQBR"),
           PortfolioAsset("ROSN", "dividends", 10, <<"R","O","S","N">>, "TQBR"),
           PortfolioAsset("GAZP", "dividends", 5, <<"G","A","Z","P">>, "TQBR"),
           PortfolioAsset("FXGD", "gold", 10, <<"F","X","G","D">>, "TQTF") >>,
     balanced |->
        << CashAsset(10),
           PortfolioAsset("SBER", "core_equity", 15, <<"S","B","E","R">>, "TQBR"),
           PortfolioAsset("YNDX", "growth", 10, <<"Y","N","D","X">>, "TQBR"),
           PortfolioAsset("ROSN", "dividends", 10, <<"R","O","S","N">>, "TQBR"),
           PortfolioAsset("GAZP", "dividends", 8, <<"G","A","Z","P">>, "TQBR"),
           PortfolioAsset("FXUS", "growth", 12, <<"F","X","U","S">>, "TQTF"),
           PortfolioAsset("FXRB", "bonds", 15, <<"F","X","R","B">>, "TQTF"),
           PortfolioAsset("FXGD", "gold", 10, <<"F","X","G","D">>, "TQTF"),
           PortfolioAsset("CRPT", "alternatives", 10, <<"C","R","P","T">>, "TQTF") >>,
     aggressive |->
        << CashAsset(5),
           PortfolioAsset("YNDX", "growth", 15, <<"Y","N","D","X">>, "TQBR"),
           PortfolioAsset("TCSG", "growth", 10, <<"T","C","S","G">>, "TQBR"),
           PortfolioAsset("SBER", "core_equity", 10, <<"S","B","E","R">>, "TQBR"),
           PortfolioAsset("ROSN", "dividends", 8, <<"R","O","S","N">>, "TQBR"),
           PortfolioAsset("GAZP", "dividends", 7, <<"G","A","Z","P">>, "TQBR"),
           PortfolioAsset("FXIT", "growth", 15, <<"F","X","I","T">>, "TQTF"),
           PortfolioAsset("FXWO", "growth", 10, <<"F","X","W","O">>, "TQTF"),
           PortfolioAsset("CRPT", "alternatives", 10, <<"C","R","P","T">>, "TQTF"),
           PortfolioAsset("FXGD", "gold", 5, <<"F","X","G","D">>, "TQTF"),
           PortfolioAsset("FXRB", "bonds", 5, <<"F","X","R","B">>, "TQTF") >>]

\* Line 94: risk if risk in PORTFOLIO_TEMPLATES else "balanced"
ProfileOf(risk) == IF risk \in DOMAIN PORTFOLIO_TEMPLATES THEN risk ELSE "balanced"

\* AllocationLine(label, weight, amount, type, ticker, board) with the
\* defaults of the other fields.
AllocationLine(asset, amount) ==
    [label |-> asset.label, weight |-> asset.weight, amount |-> amount, type |-> asset.type,
     ticker |-> asset.ticker, board |-> asset.board, quote |-> Nil, lots |-> Nil,
     units |-> Nil, invested |-> Nil, leftover |-> Nil, note |-> Nil]

\* Decimal(...).quantize(Decimal("0.01"), rounding=ROUND_HALF_UP) of a
\* non-negative amount in units of 10^-4, in hundredths.
QuantizeCents(units) == (units + 50) \div 100

\* What get_security_quote(ticker, board) ends in: an exception or a Quote
\* (its price in units of 10^-4).
QuoteRaised(exc) == [raised |-> Some(exc), quote |-> Nil]
QuoteReturned(quote) == [raised |-> Nil, quote |-> Some(quote)]

\* What the work on one plan line ends in: the line, or an exception that
\* leaves propose_allocation.
LineDone(line) == [raised |-> Nil, line |-> line]
LineRaised(exc, line) == [raised |-> Some(exc), line |-> line]

\* Lines 159-170: lot_cost > 0 (amount in whole units, costs in 10^-4).
LineWithLots(line, quote, lot_cost, lots) ==
    LineDone([line EXCEPT !.quote = Some(quote), !.lots = Some(lots),
                          !.units = Some(lots * Val(quote.lot)),
                          !.invested = Some(QuantizeCents(lot_cost * lots)),
                          !.leftover = Some(line.amount * 100
                                             - QuantizeCents(lot_cost * lots))])

\* Lines 157-172 with lot_cost = Decimal(str(quote.price)) * Decimal(quote.lot)
LineWithCost(line, quote, lot_cost) ==
    IF lot_cost > 0
    THEN LineWithLots(line, quote, lot_cost, (Units(line.amount)) \div lot_cost)
    ELSE LineDone([line EXCEPT !.quote = Some(quote),
                               !.note = Some("nekorrektnaya tsena ot istochnika")])

\* Lines 156-172, the else branch of the try: Decimal(str(None)) raises
\* decimal.InvalidOperation and Decimal(None) raises TypeError, and neither
\* is caught there.
LineWithQuote(line, quote) ==
    IF quote.price = Nil THEN LineRaised("InvalidOperation", [line EXCEPT !.quote = Some(quote)])
    ELSE IF quote.lot = Nil THEN LineRaised("TypeError", [line EXCEPT !.quote = Some(quote)])
    ELSE LineWithCost(line, quote, Val(quote.price) * Val(quote.lot))

\* Lines 150-172: the try around get_security_quote, q being what it ends in.
LineWithOutcome(line, q) ==
    IF q.raised = Some("MarketDataError")
    THEN LineDone([line EXCEPT !.note = Some("kotirovku ne udalos poluchit")])
    ELSE IF q.raised # Nil
    THEN LineDone([line EXCEPT !.note = Some("oshibka pri poluchenii kotirovki")])
    ELSE LineWithQuote(line, Val(q.quote))

\* Variant: no asset is quoted.
NeverQuoted(asset) == FALSE

\* Line 150: `asset.type != "cash" and asset.ticker`
NeedsQuote(asset) == asset.type # "cash" /\ asset.ticker # Nil /\ asset.ticker # Some(<<>>)

\* What propose_allocation ends in; log lists the get_security_quote calls.
AllocationResult(raised, plan, log) == [raised |-> raised, plan |-> plan, log |-> log]

\* One get_security_quote call of the plan loop.
QuoteReq(asset) ==
    [ep |-> "get_security_quote", ticker |-> Val(asset.ticker),
     board |-> IF asset.board = Nil THEN "TQBR" ELSE Val(asset.board)]

\* Lines 139-175: the loop over the assets from the i-th on; amounts are the
\* amounts of lines 107-137 and quotes what get_security_quote ends in for
\* each ticker.
RECURSIVE PlanLoop(_, _, _, _, _, _), PlanLineDone(_, _, _, _, _, _, _)
PlanLoop(assets, amounts, quotes, i, plan, log) ==
    IF i > Len(assets) THEN AllocationResult(Nil, plan, log)
    ELSE IF NeedsQuote(assets[i])
    THEN PlanLineDone(assets, amounts, quotes, i, plan, Append(log, QuoteReq(assets[i])),
                      LineWithOutcome(AllocationLine(assets[i], amounts[i]),
                                      quotes[Val(assets[i].ticker)]))
    ELSE PlanLoop(assets, amounts, quotes, i + 1,
                  Append(plan, AllocationLine(assets[i], amounts[i])), log)

PlanLineDone(assets, amounts, quotes, i, plan, log, r) ==
    IF r.raised # Nil THEN AllocationResult(r.raised, plan, log)
    ELSE PlanLoop(assets, amounts, quotes, i + 1, Append(plan, r.line), log)

\* propose_allocation(amount, risk) once get_key_rate() has ended in kr.
propose_allocation(risk, kr, amounts, quotes) ==
    IF kr.raised # Nil THEN AllocationResult(kr.raised, <<>>, <<>>)
    ELSE PlanLoop(PORTFOLIO_TEMPLATES[ProfileOf(risk)], amounts, quotes, 1, <<>>, <<>>)

-----------------------------------------------------------------------------
(* scheduler.py: the three broadcast jobs. A run of a job is the record     *)
(* job: the users it read from the database, the position i of the next     *)
(* user, the users whose iteration failed and the messages it has sent.     *)

\* A row of the users table, as far as the jobs read it.
User(user_id, risk, advance_day, salary_day) ==
    [user_id |-> user_id, risk |-> risk, advance_day |-> advance_day, salary_day |-> salary_day]

JobNames == {"ping_income_days", "soft_nudge", "push_daily_ideas"}

\* The job read the users and enters its loop.
JobStarted(name, users, today) ==
    [pc |-> IF users = <<>> THEN "done" ELSE "running", name |-> name, users |-> users,
     today |-> today, i |-> 1, failed |-> <<>>, sent |-> <<>>, raised |-> Nil]

\* The iteration for user i ended normally (or by continue); sent is the
\* message for that user, if any.
JobAdvanced(j, sent) ==
    [j EXCEPT !.i = j.i + 1,
              !.sent = j.sent \o sent,
              !.pc = IF j.i = Len(j.users) THEN "done" ELSE "running"]

\* The iteration for user i raised, and the except clause of the loop body
\* caught it (push_daily_ideas, lines 61-65).
JobCaught(j) ==
    [JobAdvanced(j, <<>>) EXCEPT !.failed = j.failed \o <<j.users[j.i].user_id>>]

\* The iteration for user i raised and nothing in the job catches it: the
\* exception leaves the coroutine and the run is over.
JobAborted(j, exc) ==
    [j EXCEPT !.pc = "aborted", !.failed = j.failed \o <<j.users[j.i].user_id>>,
              !.raised = Some(exc)]

\* ping_income_days, lines 21-28, for user u.
PingIteration(j, u) ==
    JobAdvanced(j, IF j.today \in {u.advance_day, u.salary_day}
                   THEN <<[to |-> u.user_id, kind |-> "income_day"]>> ELSE <<>>)

\* soft_nudge, lines 34-54, for user u: r is what propose_allocation did.
NudgeIteration(j, u, r) ==
    IF r.raised # Nil THEN JobAborted(j, Val(r.raised))
    ELSE JobAdvanced(j, <<[to |-> u.user_id, kind |-> "nudge"]>>)

\* push_daily_ideas, lines 60-73, for user u: r is what
\* rank_and_filter(generate_ideas(...)) did, r.count the number of ideas.
IdeasIteration(j, u, r) ==
    IF r.raised # Nil THEN JobCaught(j)
    ELSE IF r.count = 0 THEN JobAdvanced(j, <<>>)
    ELSE JobAdvanced(j, <<[to |-> u.user_id, kind |-> "ideas"]>>)

-----------------------------------------------------------------------------
(* ideas.py: generate_ideas. Prices, closes, volumes and rates are in units  *)
(* of 10^-4. A date text is written as the digits of its day number; any     *)
(* other text is not a date. The text fields of an idea (thesis) and the     *)
(* entry range are arithmetic on a price that is present and are left out.   *)

RECURSIVE SeqSum(_)
SeqSum(s) == IF s = <<>> THEN 0 ELSE Head(s) + SeqSum(Tail(s))

\* s[-n:]
LastN(s, n) == IF Len(s) <= n THEN s ELSE SubSeq(s, Len(s) - n + 1, Len(s))

\* The values of the points that have one.
Present(points, field) ==
    LET idx == SelectSeq([i \in 1..Len(points) |-> i], LAMBDA i : points[i][field] # Nil)
    IN  [k \in 1..Len(idx) |-> Val(points[idx[k]][field])]

HistoryPoint(date, close, volume, value) ==
    [date |-> date, close |-> close, volume |-> volume, value |-> value]

\* _coerce_float
_coerce_float(x) == SafeFloatUnits(x)

\* datetime.fromisoformat(str(value)), then strptime: Nil when both fail.
ParseDate(x) == IF x.t = "str" THEN ParseFloat(x.v) ELSE Nil

\* Lines 265-284: the point of one row, Nil when the row is skipped.
PointOfDated(row, date) ==
    IF date = Nil THEN Nil
    ELSE Some(HistoryPoint(Val(date),
                           _coerce_float(Or(Or(Or(Get(row, "CLOSE"), Get(row, "LEGALCLOSEPRICE")),
                                               Get(row, "MARKETPRICE3")),
                                            Get(row, "MARKETPRICE"))),
                           _coerce_float(Get(row, "VOLUME")),
                           _coerce_float(Get(row, "VALUE"))))

PointOfRow(row, date_value) ==
    IF ~Truthy(date_value) THEN Nil ELSE PointOfDated(row, ParseDate(date_value))

PointOf(row) == PointOfRow(row, Or(Get(row, "TRADEDATE"), Get(row, "DATE")))

\* list.sort(key=date): a stable insertion of p into the sorted list.
RECURSIVE InsertByDate(_, _)
InsertByDate(sorted, p) ==
    IF sorted = <<>> THEN <<p>>
    ELSE IF sorted[Len(sorted)].date <= p.date THEN Append(sorted, p)
    ELSE Append(InsertByDate(SubSeq(sorted, 1, Len(sorted) - 1), p), sorted[Len(sorted)])

RECURSIVE SortByDate(_, _)
SortByDate(points, sorted) ==
    IF points = <<>> THEN sorted
    ELSE SortByDate(Tail(points), InsertByDate(sorted, Head(points)))

RECURSIVE PointsOf(_)
PointsOf(rows) ==
    IF rows = <<>> THEN <<>>
    ELSE PointOf(Head(rows)) \o PointsOf(Tail(rows))

\* _normalize_history
_normalize_history(rows) == LastN(SortByDate(PointsOf(rows), <<>>), 260)

\* _moving_average
_moving_average(values, window) ==
    IF Len(values) < window THEN Nil
    ELSE Some(SeqSum(LastN(values, window)) \div window)

Gains(values) == [i \in 1..(Len(values) - 1) |->
                    IF values[i + 1] > values[i] THEN values[i + 1] - values[i] ELSE 0]
Losses(values) == [i \in 1..(Len(values) - 1) |->
                     IF values[i + 1] < values[i] THEN values[i] - values[i + 1] ELSE 0]

\* Lines 353-358: 100 - 100 / (1 + gain / loss) = 100 * gain / (gain + loss)
RsiOf(gain, loss) ==
    IF loss = 0 THEN Some(Units(100)) ELSE Some((Units(100) * gain) \div (gain + loss))

\* _compute_rsi
_compute_rsi(values, window) ==
    IF Len(values) <= window THEN Nil
    ELSE RsiOf(SeqSum(LastN(Gains(values), window)), SeqSum(LastN(Losses(values), window)))

\* The mean of the last 20 values, when there are any (lines 303-310).
TailMean(values) ==
    IF values = <<>> THEN Nil ELSE Some(SeqSum(LastN(values, 20)) \div Len(LastN(values, 20)))

SeqMax(s) == Max({s[i] : i \in 1..Len(s)})
SeqMin(s) == Min({s[i] : i \in 1..Len(s)})

\* Lines 317-325: a fundamental of the snapshot.
Fundamental(raw) ==
    IF raw = Null \/ raw = Str(<<>>) \/ raw.t = "bool" THEN Nil ELSE SafeFloatUnits(raw)

\* The keys of the metrics dict; a key that is absent or None is Nil.
EmptyMetrics ==
    [k \in {"price", "currency", "dma20", "dma50", "dma200", "rsi14", "high52", "low52",
             "avg_volume", "avg_value", "pe", "dividend_yield", "market_cap", "lot", "lot_value",
             "change_percent", "key_rate", "macro_indicator", "score", "volume", "change_7d"}
        |-> Nil]

\* Lines 327-330
LotValue(quote) ==
    IF quote.price # Nil /\ quote.lot # Nil /\ Val(quote.lot) # 0
    THEN Some(Val(quote.price) * Val(quote.lot)) ELSE Nil

Metrics(closes, volumes, values, quote, snapshot) ==
    [price |-> quote.price, currency |-> Some(quote.currency),
     lot_value |-> LotValue(quote), volume |-> Nil, change_7d |-> Nil,
     dma20 |-> _moving_average(closes, 20), dma50 |-> _moving_average(closes, 50),
     dma200 |-> _moving_average(closes, 200), rsi14 |-> _compute_rsi(closes, 14),
     high52 |-> IF closes = <<>> THEN Nil ELSE Some(SeqMax(LastN(closes, 260))),
     low52 |-> IF closes = <<>> THEN Nil ELSE Some(SeqMin(LastN(closes, 260))),
     avg_volume |-> TailMean(volumes), avg_value |-> TailMean(values),
     pe |-> Fundamental(Get(snapshot, "PE")),
     dividend_yield |-> Fundamental(Get(snapshot, "DIVYIELD")),
     market_cap |-> Fundamental(Get(snapshot, "ISSUECAPITALIZATION")),
     lot |-> quote.lot, change_percent |-> quote.change,
     key_rate |-> Nil, macro_indicator |-> Nil, score |-> Nil]

\* _compute_metrics
_compute_metrics(history, quote, snapshot) ==
    Metrics(Present(history, "close"), Present(history, "volume"), Present(history, "value"),
            quote, snapshot)

\* _safe_key_rate: kr is what get_key_rate() did.
_safe_key_rate(kr) == IF kr.raised # Nil THEN Nil ELSE kr.rate

\* _horizon_for
_horizon_for(tag) ==
    CASE tag = "cash" -> 30
      [] tag \in {"bonds", "alternatives", "bonds_index"} -> 120
      [] tag \in {"core_equity", "dividends"} -> 180
      [] tag = "growth" -> 210
      [] tag \in {"gold", "etf"} -> 150
      [] OTHER -> 120

\* IdeaSource: name is the text of the name, date its day number.
IdeaSource(name, date) == [name |-> name, date |-> date]

\* Quote.as_of
as_of(quote) == quote.ts_utc

\* Lines 409-416: the date of the issuer profile.
UpdatedDate(updated, quote) ==
    IF ~Truthy(updated) THEN as_of(quote)
    ELSE IF ParseDate(updated) = Nil THEN as_of(quote)
    ELSE ParseDate(updated)

\* Lines 424-432: the commentary is a source when it has a url.
CommentarySources(commentary) ==
    IF commentary # Nil /\ Truthy(Get(Val(commentary), "url"))
    THEN <<IdeaSource(<<"M","O","E","X"," ","a","n","a","l","i","t","i","k","a">>, Some(0))>> ELSE <<>>

\* Lines 436-447: the macro series of the tag, if any.
FredSeries(tag) ==
    CASE tag \in {"bonds", "bonds_index"} -> Some("RUSCPIALLMINMEI")
      [] tag \in {"growth", "core_equity"} -> Some("DGS10")
      [] tag = "dividends" -> Some("FEDFUNDS")
      [] OTHER -> Nil

\* _collect_sources_for_security: aux holds what get_market_commentary,
\* get_edgar_sources and get_latest_value returned.
_collect_sources_for_security(quote, snapshot, tag, aux) ==
    [sources |-> <<IdeaSource(<<"M","O","E","X"," ","I","S","S"," ","k","o","t","i","r","o","v","k","i">>, as_of(quote)),
                   IdeaSource(<<"M","O","E","X"," ","p","r","o","f","i","l"," ","e","m","i","t","e","n","t","a">>,
                              UpdatedDate(Or(Get(snapshot, "UPDATEDATE"),
                                             Get(snapshot, "LISTLEVELCHANGEDATE")), quote))>>
                 \o CommentarySources(aux.commentary) \o aux.edgar
                 \o (IF FredSeries(tag) # Nil THEN aux.fred.sources ELSE <<>>),
     macro_value |-> IF FredSeries(tag) # Nil THEN aux.fred.value ELSE Nil]

\* _detect_risks
_detect_risks(metrics, tag) ==
    (IF metrics.rsi14 # Nil /\ Val(metrics.rsi14) > Units(70) THEN <<"perekuplennost po RSI">>
     ELSE IF metrics.rsi14 # Nil /\ Val(metrics.rsi14) < Units(30) THEN <<"pereprodannost po RSI">>
     ELSE <<>>)
    \o (IF metrics.change_percent # Nil
           /\ (Val(metrics.change_percent) > Units(3) \/ Val(metrics.change_percent) < 0 - Units(3))
        THEN <<"dnevnaya volatilnost vyshe 3%">> ELSE <<>>)
    \o (IF tag \in {"alternatives", "crypto"} THEN <<"povyshennyi risk kategorii aktiva">> ELSE <<>>)

Idea(ticker, board, asset_type, horizon_days, metrics, risks, confidence, sources, score) ==
    [ticker |-> ticker, board |-> board, asset_type |-> asset_type,
     horizon_days |-> horizon_days, metrics |-> metrics, risks |-> risks,
     confidence |-> confidence, sources |-> sources, score |-> score]

\* What a builder did: it raised, or it returned an idea or None; cache is
\* the key-rate cache it leaves.
Built(idea, cache) == [raised |-> Nil, idea |-> idea, cache |-> cache]
BuildRaised(exc, cache) == [raised |-> Some(exc), idea |-> Nil, cache |-> cache]

\* Lines 176-206
IdeaWithSources(ticker, board, tag, metrics, collected, cache) ==
    Built(Some(Idea(Upper(ticker), Upper(board), tag, _horizon_for(tag),
                    [metrics EXCEPT !.macro_indicator = collected.macro_value],
                    _detect_risks(metrics, tag), "low", collected.sources, 0)),
          cache)

\* Variant: a failing get_key_rate is not caught.
KeyRateUncaught(kr) == kr.raised

\* Lines 56-62: the exception that leaves _safe_key_rate, none: the except
\* clause swallows every exception of get_key_rate.
KeyRateEscaping(kr) == Nil

IdeaWithKeyRate(ticker, board, tag, quote, snapshot, metrics, kr, aux) ==
    IF KeyRateEscaping(kr) # Nil THEN BuildRaised(Val(KeyRateEscaping(kr)), kr.cache)
    ELSE IdeaWithSources(ticker, board, tag,
                         [metrics EXCEPT !.key_rate = IF _safe_key_rate(kr) # Nil
                                                      THEN Some(Val(_safe_key_rate(kr)) * 100)
                                                      ELSE Nil],
                         _collect_sources_for_security(quote, snapshot, tag, aux), kr.cache)

\* Lines 171-177
IdeaFromHistory(ticker, board, tag, quote, snapshot, history, w, cache) ==
    IF history = <<>> THEN Built(Nil, cache)
    ELSE IdeaWithKeyRate(ticker, board, tag, quote, snapshot,
                         _compute_metrics(history, quote, snapshot),
                         get_key_rate(cache, w.fallback, w.now, w.kr), w.aux)

\* Lines 166-171
IdeaFromRows(ticker, board, tag, quote, snapshot, w, cache) ==
    IF w.history = <<>> THEN Built(Nil, cache)
    ELSE IdeaFromHistory(ticker, board, tag, quote, snapshot, _normalize_history(w.history),
                         w, cache)

\* Variant: a failing snapshot is not caught.
SnapshotUncaught(snap) == snap

\* Lines 158-165: the except clauses around get_security_snapshot
SnapshotCaught(snap) == IF snap.raised # Nil THEN [raised |-> Nil, data |-> <<>>] ELSE snap

IdeaWithSnapshot(ticker, board, tag, quote, snap, w, cache) ==
    IF snap.raised # Nil THEN BuildRaised(Val(snap.raised), cache)
    ELSE IdeaFromRows(ticker, board, tag, quote, snap.data, w, cache)

\* Lines 147-165
IdeaFromQuote(ticker, board, tag, quote, w, cache) ==
    IF quote.price = Nil THEN Built(Nil, cache)
    ELSE IdeaWithSnapshot(ticker,
                          IF quote.board # Nil /\ Val(quote.board) # <<>> THEN Val(quote.board)
                          ELSE board,
                          tag, quote, SnapshotCaught(w.snapshot), w, cache)

\* Variant: a quote that raises is not caught.
QuoteUncaught(q) == FALSE

\* Lines 138-145: the except clauses around get_quote
QuoteCaught(q) == q.raised # Nil

\* _build_security_idea(ticker, board, tag) when its calls end as w says:
\* w.quote is what get_quote did, w.snapshot what get_security_snapshot did,
\* w.history the rows of get_security_history, w.kr the answers of the
\* key-rate sources; cache is the key-rate cache.
_build_security_idea(ticker, board, tag, w, cache) ==
    IF QuoteCaught(w.quote) THEN Built(Nil, cache)
    ELSE IF w.quote.raised # Nil THEN BuildRaised(Val(w.quote.raised), cache)
    ELSE IdeaFromQuote(ticker, board, tag, Val(w.quote.quote), w, cache)

\* Line 214: float(market.get("current_price", 0.0))
CoinPrice(market) ==
    IF "current_price" \notin DOMAIN market THEN [raised |-> Nil, price |-> Some(0)]
    ELSE IF market.current_price = Null THEN [raised |-> Some("TypeError"), price |-> Nil]
    ELSE IF SafeFloatUnits(market.current_price) = Nil
    THEN [raised |-> Some("ValueError"), price |-> Nil]
    ELSE [raised |-> Nil, price |-> SafeFloatUnits(market.current_price)]

CryptoIdea(symbol, market, sources, price, cache) ==
    IF price.raised # Nil THEN BuildRaised(Val(price.raised), cache)
    ELSE Built(Some(Idea(Upper(symbol), <<"C","R","Y","P","T","O">>, "crypto", 60,
                         [EmptyMetrics EXCEPT !.price = price.price,
                                              !.currency = Some(USD),
                                              !.market_cap = SafeFloatUnits(Get(market, "market_cap")),
                                              !.volume = SafeFloatUnits(Get(market, "total_volume")),
                                              !.change_7d = SafeFloatUnits(Get(market, "price_change_percentage_7d_in_currency"))],
                         <<"vysokaya volatilnost kriptovalyut">>, "low", sources, 0)),
               cache)

\* _build_crypto_idea: m is what get_coin_market returned, an empty market
\* when the request failed. The 24 h and 30 d changes are copied like the
\* 7 d change and are left out.
_build_crypto_idea(symbol, m, cache) ==
    IF m.market = <<>> THEN Built(Nil, cache)
    ELSE CryptoIdea(symbol, m.market, m.sources, CoinPrice(m.market), cache)

\* _extra_candidates
_extra_candidates ==
    <<[ticker |-> <<"F","X","R","L">>, board |-> TQTF, tag |-> "etf"],
      [ticker |-> <<"F","X","D","E">>, board |-> TQTF, tag |-> "etf"],
      [ticker |-> <<"R","G","B","I">>, board |-> <<"S","N","D","X">>, tag |-> "bonds"]>>

\* Lines 72-80: the candidate of a portfolio asset, Nil without a ticker.
CandidateOfAsset(asset) ==
    IF asset.ticker = Nil \/ asset.ticker = Some(<<>>) THEN Nil
    ELSE Some([ticker |-> Val(asset.ticker), board |-> OrElse(asset.board, TQBR),
               tag |-> IF asset.tag # "" THEN asset.tag ELSE asset.type])

RECURSIVE CandidatesOf(_)
CandidatesOf(assets) ==
    IF assets = <<>> THEN <<>> ELSE CandidateOfAsset(Head(assets)) \o CandidatesOf(Tail(assets))

IdeasResult(raised, ideas, built, cache) ==
    [raised |-> raised, ideas |-> ideas, built |-> built, cache |-> cache]

\* Lines 95-99
WithCrypto(ideas, built, r) ==
    IF r.raised # Nil THEN IdeasResult(r.raised, ideas, built, r.cache)
    ELSE IdeasResult(Nil, ideas \o r.idea, built, r.cache)

\* Lines 72-93: the two loops over the candidates; seen holds the keys met,
\* built the tickers _build_security_idea was called for.
RECURSIVE IdeasLoop(_, _, _, _, _, _), IdeasLoopBuilt(_, _, _, _, _, _)
IdeasLoop(cands, worlds, seen, ideas, built, cache) ==
    IF cands = <<>>
    THEN WithCrypto(ideas, built, _build_crypto_idea(<<"B","T","C">>, worlds.coin, cache))
    ELSE IF <<Head(cands).ticker, Head(cands).board>> \in seen
    THEN IdeasLoop(Tail(cands), worlds, seen, ideas, built, cache)
    ELSE IdeasLoopBuilt(cands, worlds, seen, ideas, built,
                        _build_security_idea(Head(cands).ticker, Head(cands).board, Head(cands).tag,
                                             worlds.of[Head(cands).ticker], cache))

IdeasLoopBuilt(cands, worlds, seen, ideas, built, r) ==
    IF r.raised # Nil
    THEN IdeasResult(r.raised, ideas, Append(built, Head(cands).ticker), r.cache)
    ELSE IdeasLoop(Tail(cands), worlds, seen \cup {<<Head(cands).ticker, Head(cands).board>>},
                   ideas \o r.idea, Append(built, Head(cands).ticker), r.cache)

\* generate_ideas(risk): assets is what portfolio_assets(risk) returned,
\* cache the key-rate cache at the call.
generate_ideas(assets, worlds, cache) ==
    IdeasLoop(CandidatesOf(assets) \o _extra_candidates, worlds, {}, <<>>, <<>>, cache)

-----------------------------------------------------------------------------
(* ideas.py: rank_and_filter. Scores are in units of 10^-4; today is the day *)
(* number of the call.                                                       *)

\* sources.filter_fresh_sources
filter_fresh_sources(sources, max_age_days, today) ==
    SelectSeq(sources, LAMBDA item : today - Val(item.date) <= max_age_days)

\* max(min(score, 1.0), 0.0)
Clamp01(score) == IF score > Units(1) THEN Units(1) ELSE IF score < 0 THEN 0 ELSE score

\* The whole part of a value in units of 10^-4.
Whole(v) == v \div 10000

\* Lines 473-477: the part of the price/earnings ratio
PeScore(pe) ==
    IF pe = Nil \/ Val(pe) <= 0 THEN 0
    ELSE IF Val(pe) >= Units(5) /\ Val(pe) <= Units(15) THEN 3000
    ELSE IF Val(pe) < Units(5) \/ Val(pe) > Units(25) THEN 0 - 1000
    ELSE 0

\* Lines 487-491: the part of the dividend yield
YieldScore(div_yield, key_rate_percent) ==
    IF div_yield = Nil \/ Val(div_yield) = 0 THEN 0
    ELSE IF key_rate_percent # Nil /\ Val(div_yield) >= Val(key_rate_percent) THEN 2000
    ELSE IF Val(div_yield) >= Units(5) THEN 1000
    ELSE 0

\* _score_fundamentals, given the key rate in percent
_score_fundamentals(metrics, key_rate_percent) ==
    Clamp01(4000 + PeScore(metrics.pe) + YieldScore(metrics.dividend_yield, key_rate_percent))

\* Lines 503-507: price against the moving averages
TrendScore(price, dma20, dma50) ==
    IF price = Nil \/ Val(price) = 0 \/ dma20 = Nil \/ Val(dma20) = 0 THEN 0
    ELSE IF Val(price) >= Val(dma20)
            /\ Val(dma20) >= (IF dma50 # Nil /\ Val(dma50) # 0 THEN Val(dma50) ELSE Val(dma20))
    THEN 2000
    ELSE IF Val(price) < Val(dma20) THEN 0 - 1000
    ELSE 0

\* Lines 508-515
LongTrendScore(price, dma200) ==
    IF dma200 # Nil /\ price # Nil /\ Val(price) >= Val(dma200) THEN 1000 ELSE 0
RsiScore(rsi) ==
    IF rsi = Nil THEN 0
    ELSE IF Val(rsi) >= Units(40) /\ Val(rsi) <= Units(60) THEN 1000
    ELSE IF Val(rsi) > Units(70) \/ Val(rsi) < Units(30) THEN 0 - 1000
    ELSE 0

\* _score_tech
_score_tech(metrics) ==
    Clamp01(5000 + TrendScore(metrics.price, metrics.dma20, metrics.dma50)
                 + LongTrendScore(metrics.price, metrics.dma200) + RsiScore(metrics.rsi14))

\* Line 521: the sources whose name mentions analytics or the SEC
NewsCount(sources) ==
    Len(SelectSeq(sources, LAMBDA src : \/ Contains(Lower(src.name), <<"a","n","a","l","i","t">>)
                                        \/ Contains(Lower(src.name), <<"s","e","c">>)))

\* _score_news times the number of sources (count / total + 0.3, clamped)
NewsTimesTotal(count, total) ==
    IF count * 10000 + 3000 * total > 10000 * total THEN 10000 * total
    ELSE count * 10000 + 3000 * total

\* _score_liquidity
_score_liquidity(metrics) ==
    IF metrics.avg_value # Nil /\ Val(metrics.avg_value) # 0
    THEN (IF Whole(Val(metrics.avg_value)) >= 100000000 THEN 10000
          ELSE IF Whole(Val(metrics.avg_value)) >= 50000000 THEN 8000
          ELSE IF Whole(Val(metrics.avg_value)) >= 10000000 THEN 6000
          ELSE 3000)
    ELSE IF metrics.avg_volume # Nil /\ Val(metrics.avg_volume) # 0
    THEN (IF Whole(Val(metrics.avg_volume)) >= 1000000 THEN 8000
          ELSE IF Whole(Val(metrics.avg_volume)) >= 200000 THEN 6000
          ELSE 3000)
    ELSE 1000

\* round(n / d) to the nearest integer, ties to even
RoundDiv(n, d) ==
    IF 2 * (n % d) > d \/ (2 * (n % d) = d /\ (n \div d) % 2 = 1) THEN (n \div d) + 1
    ELSE n \div d

\* Lines 111-112: round(0.35 fund + 0.25 tech + 0.25 news + 0.15 liquidity, 4)
\* with news = newsT / total
WeightedScore(fund, tech, newsT, liquidity, total) ==
    RoundDiv(35 * fund * total + 25 * tech * total + 25 * newsT + 15 * liquidity * total,
             100 * total)

ScoreOf(metrics, sources, key_rate_percent) ==
    IF sources = <<>>
    THEN WeightedScore(_score_fundamentals(metrics, key_rate_percent), _score_tech(metrics), 0,
                       _score_liquidity(metrics), 1)
    ELSE WeightedScore(_score_fundamentals(metrics, key_rate_percent), _score_tech(metrics),
                       NewsTimesTotal(NewsCount(sources), Len(sources)),
                       _score_liquidity(metrics), Len(sources))

InsufficientData == "dannykh nedostatochno"
FewFreshSources == "dannykh nedostatochno: malo svezhikh istochnikov"

\* Variant: the idea keeps the confidence its score gives.
ConfidenceByScore(score, source_count, min_sources) ==
    IF score >= 7500 THEN "high" ELSE IF score >= 5500 THEN "mid" ELSE "low"

\* Lines 115-125
ConfidenceOf(score, source_count, min_sources) ==
    IF source_count < min_sources THEN "low"
    ELSE IF score >= 7500 THEN "high"
    ELSE IF score >= 5500 THEN "mid"
    ELSE "low"

\* Lines 115-118
RisksOf(risks, source_count, min_sources) ==
    IF source_count < min_sources /\ ~(\E i \in 1..Len(risks) : risks[i] = InsufficientData)
    THEN Append(risks, FewFreshSources) ELSE risks

\* Lines 105-126: the idea after scoring
Scored(idea, fresh, metrics, score, cfg) ==
    [idea EXCEPT !.sources = fresh, !.score = score,
                 !.metrics = [metrics EXCEPT !.score = Some(score)],
                 !.confidence = ConfidenceOf(score, Len(fresh), cfg.IDEAS_MIN_SOURCES),
                 !.risks = RisksOf(idea.risks, Len(fresh), cfg.IDEAS_MIN_SOURCES)]

ScoredWithMetrics(idea, fresh, metrics, cfg) ==
    Scored(idea, fresh, metrics, ScoreOf(metrics, fresh, metrics.key_rate), cfg)

\* Lines 479-486: the key rate of the metrics, or the one of _safe_key_rate()
\* stored in them
MetricsWithRate(metrics, rate) ==
    IF rate # Nil THEN [metrics EXCEPT !.key_rate = Some(Val(rate) * 100)] ELSE metrics

\* list.sort(key=score, reverse=True): a stable insertion by falling score.
RECURSIVE InsertByScore(_, _)
InsertByScore(sorted, idea) ==
    IF sorted = <<>> THEN <<idea>>
    ELSE IF sorted[Len(sorted)].score >= idea.score THEN Append(sorted, idea)
    ELSE Append(InsertByScore(SubSeq(sorted, 1, Len(sorted) - 1), idea), sorted[Len(sorted)])

RECURSIVE SortByScore(_, _)
SortByScore(ideas, sorted) ==
    IF ideas = <<>> THEN sorted
    ELSE SortByScore(Tail(ideas), InsertByScore(sorted, Head(ideas)))

\* Variant: the whole filtered list is returned.
NoCut(filtered, topn) == filtered

\* Lines 133-134
TopN(filtered, topn) == SubSeq(filtered, 1, IF topn < Len(filtered) THEN topn ELSE Len(filtered))

\* Variant: the ideas under the threshold are dropped even when fewer than
\* three reach it.
ThresholdOnly(filtered, scored) == filtered

\* Lines 131-132
AtLeastThree(filtered, scored) ==
    IF Len(filtered) < 3 THEN SubSeq(scored, 1, IF Len(scored) < 3 THEN Len(scored) ELSE 3)
    ELSE filtered

\* Lines 128-134
Selected(scored, cfg) ==
    TopN(AtLeastThree(SelectSeq(scored, LAMBDA idea : idea.score >= cfg.IDEAS_SCORE_THRESHOLD),
                      scored),
         cfg.IDEAS_TOPN)

RankResult(raised, ranked, scored, cache) ==
    [raised |-> raised, ranked |-> ranked, scored |-> scored, cache |-> cache]

\* Lines 104-126: the loop over the ideas; scored holds the ideas done, in
\* the order of the input, cache the key-rate cache.
RECURSIVE ScoreLoop(_, _, _, _), ScoreLoopRated(_, _, _, _, _)
ScoreLoop(ideas, env, scored, cache) ==
    IF ideas = <<>>
    THEN RankResult(Nil, Selected(SortByScore(scored, <<>>), env.cfg), scored, cache)
    ELSE IF \E i \in 1..Len(Head(ideas).sources) : Head(ideas).sources[i].date = Nil
    THEN RankResult(Some("AttributeError"), <<>>, scored, cache)
    ELSE IF Head(ideas).metrics.key_rate # Nil
    THEN ScoreLoop(Tail(ideas), env,
                   Append(scored,
                          ScoredWithMetrics(Head(ideas),
                                            filter_fresh_sources(Head(ideas).sources,
                                                                 env.cfg.IDEAS_MAX_AGE_DAYS, env.today),
                                            Head(ideas).metrics, env.cfg)),
                   cache)
    ELSE ScoreLoopRated(ideas, env, scored, cache,
                        get_key_rate(cache, env.cfg.KEY_RATE_FALLBACK, env.now, env.kr))

ScoreLoopRated(ideas, env, scored, cache, kr) ==
    ScoreLoop(Tail(ideas), env,
              Append(scored,
                     ScoredWithMetrics(Head(ideas),
                                       filter_fresh_sources(Head(ideas).sources,
                                                            env.cfg.IDEAS_MAX_AGE_DAYS, env.today),
                                       MetricsWithRate(Head(ideas).metrics, _safe_key_rate(kr)),
                                       env.cfg)),
              kr.cache)

\* rank_and_filter(ideas) on day env.today with the settings env.cfg, the
\* key-rate sources answering as env.kr says.
rank_and_filter(ideas, env, cache) == ScoreLoop(ideas, env, <<>>, cache)

-----------------------------------------------------------------------------
(* handlers.py: _apply_quote_to_line                                       *)
(* Amounts are whole roubles, prices are in units of 10^-4, invested and   *)
(* leftover are in hundredths; a note is the list of its joined texts.     *)

\* Line 48: "котировка недоступна"
QuoteUnavailableNote == Some(<<"kotirovka nedostupna">>)

\* Line 56: "некорректная цена от источника"
IncorrectPriceNote == Some(<<"nekorrektnaya tsena ot istochnika">>)

\* Variant: the note of the quote is written only over an empty note.
KeptNote(line, quote) ==
    IF line.note = Nil THEN describe_quote_reason(quote.reason, quote.context) ELSE line.note

\* Line 40: the note the quote's reason and context stand for
NoteOfQuote(line, quote) == describe_quote_reason(quote.reason, quote.context)

\* Lines 39-44: the quote is attached and the figures are reset.
LineReset(line, quote) ==
    [line EXCEPT !.quote = Some(quote), !.note = NoteOfQuote(line, quote),
                 !.lots = Nil, !.units = Nil, !.invested = Nil,
                 !.leftover = Some(line.amount * 100)]

\* Lines 46-49: no price or no lot size
LineWithoutLots(line, quote) ==
    IF quote.price = Nil /\ line.note = Nil
    THEN [line EXCEPT !.note = QuoteUnavailableNote]
    ELSE line

\* Variant: the number of lots is rounded up.
LotsRoundedUp(amount_units, lot_cost) == (amount_units + lot_cost - 1) \div lot_cost

\* Line 60: int((amount_value / lot_cost).to_integral_value(ROUND_DOWN))
LotsFor(amount_units, lot_cost) == amount_units \div lot_cost

\* Lines 61-66
LineFilled(line, quote, lot_cost, lots) ==
    [line EXCEPT !.lots = Some(lots), !.units = Some(lots * Val(quote.lot)),
                 !.invested = Some(QuantizeCents(lot_cost * lots)),
                 !.leftover = Some(line.amount * 100 - QuantizeCents(lot_cost * lots))]

\* Lines 51-66 with lot_cost = Decimal(str(quote.price)) * Decimal(str(quote.lot))
LineWithLotCost(line, quote, lot_cost) ==
    IF lot_cost <= 0
    THEN IF line.note = Nil THEN [line EXCEPT !.note = IncorrectPriceNote] ELSE line
    ELSE LineFilled(line, quote, lot_cost, LotsFor(Units(line.amount), lot_cost))

\* Lines 46-66 on the line that lines 39-44 have reset
ApplyToReset(line, quote) ==
    IF quote.price = Nil \/ quote.lot \in {Nil, Some(0)}
    THEN LineWithoutLots(line, quote)
    ELSE LineWithLotCost(line, quote, Val(quote.price) * Val(quote.lot))

\* _apply_quote_to_line(line, quote): the line as the call leaves it
_apply_quote_to_line(line, quote) == ApplyToReset(LineReset(line, quote), quote)

-----------------------------------------------------------------------------
(* providers.py: get_quote called from several callers side by side.       *)
(* Each caller keeps its own locals; the caches are the shared state. The  *)
(* steps are the places where the call reads or writes a cache or waits    *)
(* for an upstream: resolve_source (line 195), the cache lookup (196-200), *)
(* the fetcher (202-216) and the cache write (218-220).                    *)

CallerIds == {"job", "user"}

IdleCaller == [pc |-> "idle"]

\* Lines 194-195: the locals of a call that has not resolved its route yet.
\* at: the clock when the fetcher ran; beside: the callers that had missed
\* the same slot and not yet finished when this one missed.
StartedCaller(ticker) ==
    [pc |-> "started", ticker |-> ticker, normalized |-> Strip(Upper(ticker)), route |-> Nil,
     now |-> 0, at |-> 0, cached |-> Nil, hit |-> FALSE, w |-> NoAnswers, raised |-> Nil,
     quote |-> Nil, log |-> <<>>, beside |-> {}]

\* Line 195: resolve_source has ended in res.
CallerRouted(caller, res) ==
    IF res.raised # Nil
    THEN [caller EXCEPT !.pc = "done", !.raised = res.raised, !.log = res.log]
    ELSE [caller EXCEPT !.pc = "routed", !.route = Some(res.route), !.log = res.log]

\* Line 196: cache_key = f"{route.name}:{route.symbol}"
CacheKeyOf(caller) == <<Val(caller.route).name, Val(caller.route).symbol>>

\* The other callers that have missed the slot of this caller and not stored yet.
MissingBeside(c, all) ==
    {d \in DOMAIN all \ {c} :
        /\ all[d].pc \in {"missed", "fetched"}
        /\ CacheKeyOf(all[d]) = CacheKeyOf(all[c])}

\* Lines 197-200: the entry of the slot and the clock have been read.
CallerLooked(caller, cached, now, beside) ==
    IF CacheFresh(cached, now)
    THEN [caller EXCEPT !.pc = "done", !.cached = cached, !.now = now, !.hit = TRUE,
                        !.quote = Some(Val(cached)[2])]
    ELSE [caller EXCEPT !.pc = "missed", !.cached = cached, !.now = now, !.beside = beside]

\* Lines 202-216: the fetcher of the route has ended in got, the upstreams
\* having answered as w says.
CallerFetched(caller, w, at, got) ==
    IF got.raised # Nil
    THEN [caller EXCEPT !.pc = "done", !.w = w, !.at = at, !.raised = got.raised,
                        !.log = caller.log \o got.log]
    ELSE [caller EXCEPT !.pc = "fetched", !.w = w, !.at = at, !.quote = got.quote,
                        !.log = caller.log \o got.log]

\* Variant: the slot is written whether or not the quote has a price.
StoreUnpriced(cache, caller) ==
    CachePut(cache, CacheKeyOf(caller), <<caller.now, Val(caller.quote)>>)

\* Lines 218-219: the write of the slot with the time read at line 198
CallerStore(cache, caller) ==
    StoreQuote(cache, CacheKeyOf(caller), caller.now, Val(caller.quote))

-----------------------------------------------------------------------------
(* brokers/tinkoff_filter.py: is_tradable called from several callers side by side *)

\* Lines 62-65 and 80: path.stat() gives FileNotFoundError (Nil) or st_mtime.
StatOf(file) == IF file = Nil THEN Nil ELSE Some(Val(file).mtime)

\* A caller of is_tradable that has passed lines 101-107 with a symbol and a
\* type and has taken the stat of the file, outside the lock.
UniverseStated(symbol, sec_type, stat) ==
    [pc |-> "stated", symbol |-> symbol, sec_type |-> sec_type, stat |-> stat]

\* Lines 65-77 and 81-90, inside `with _LOCK`: stat was taken before the lock,
\* file is what load_universe finds at the path when it runs.
LoadWithStat(cache, path, stat, file) ==
    IF stat = Nil
    THEN UniverseLoaded([path |-> path, mtime |-> 0, universe |-> EmptyUniverse,
                         strict |-> FALSE])
    ELSE IF UniverseStale(cache, path, Val(stat))
    THEN UniverseLoaded([path |-> path, mtime |-> Val(stat),
                         universe |-> load_universe(file), strict |-> TRUE])
    ELSE UniverseLoaded(Val(cache))

\* A caller that has returned from is_tradable: what it was given by
\* _load_configured_universe and its answer (lines 109-120).
UniverseAnswered(caller, loaded) ==
    [pc |-> "done", symbol |-> caller.symbol, sec_type |-> caller.sec_type,
     stat |-> caller.stat, universe |-> loaded.universe, strict |-> loaded.strict,
     answer |-> TradableIn(caller.symbol, caller.sec_type, loaded).answer]

-----------------------------------------------------------------------------
(* strategy.py: the weights and the amounts of the plan lines. Weights are   *)
(* kept in units of 10^-4 and the key rate in units of 10^-4 percent. A      *)
(* float quotient is the double nearest to the exact one, below or above it: *)
(* at the grain of the model it is rounded to the nearest unit, down or up,  *)
(* as `rounding` says, so that the weights can sum to less or more than one. *)

Roundings == {"nearest", "down", "up"}
\* a / b with b > 0, rounded.
Quotient(a, b, rounding) ==
    IF rounding = "down" THEN a \div b
    ELSE IF rounding = "up" THEN 0 - ((0 - a) \div b)
    ELSE RoundDiv(a, b)

\* The weight of a template asset (hundredths) in units of 10^-4.
WithWeightUnits(asset) == [asset EXCEPT !.weight = @ * (Units(1) \div 100)]

\* _rate_to_percent(value): value * 100 if value <= 1 else value
_rate_to_percent(value) == IF value <= Units(1) THEN value * 100 ELSE value

\* Line 192: max(min((kr_percent - baseline) * sensitivity, 0.05), -0.05);
\* sensitivity is in units of 10^-4.
RateShift(kr_percent, baseline, sensitivity) ==
    Max({Min({RoundDiv((kr_percent - baseline) * sensitivity, Units(1)), 500}), 0 - 500})

\* Lines 208-214: shift * portion, portion being asset.weight / total or
\* 1 / len(items) when the total is zero.
ShiftPart(shift, weight, total, count, rounding) ==
    IF total # 0 THEN Quotient(shift * weight, total, rounding)
    ELSE Quotient(shift, count, rounding)

\* Lines 208-218 for one asset: the increase tag gains its part of the shift,
\* the decrease tag loses it, and a negative weight becomes 0.0.
ShiftedWeight(asset, shift, increase_tag, decrease_tag, inc_total, dec_total, inc_n, dec_n, rounding) ==
    IF asset.tag = increase_tag
    THEN Max({asset.weight + ShiftPart(shift, asset.weight, inc_total, inc_n, rounding), 0})
    ELSE IF asset.tag = decrease_tag
    THEN Max({asset.weight - ShiftPart(shift, asset.weight, dec_total, dec_n, rounding), 0})
    ELSE Max({asset.weight, 0})

\* The indexes of the assets with a tag and the sum of their weights.
Tagged(assets, tag) == {i \in 1..Len(assets) : assets[i].tag = tag}
TagTotal(assets, tag) ==
    SeqSum([i \in 1..Len(assets) |-> IF assets[i].tag = tag THEN assets[i].weight ELSE 0])

\* Lines 193-218 with the shift of line 192.
ApplyShift(assets, increase_tag, decrease_tag, shift, rounding) ==
    IF shift = 0 THEN assets
    ELSE IF Tagged(assets, increase_tag) = {} \/ Tagged(assets, decrease_tag) = {} THEN assets
    ELSE IF TagTotal(assets, increase_tag) <= 0 /\ shift < 0 THEN assets
    ELSE IF TagTotal(assets, decrease_tag) <= 0 /\ shift > 0 THEN assets
    ELSE [i \in 1..Len(assets) |->
            [assets[i] EXCEPT !.weight =
                ShiftedWeight(assets[i], shift, increase_tag, decrease_tag,
                              TagTotal(assets, increase_tag), TagTotal(assets, decrease_tag),
                              Cardinality(Tagged(assets, increase_tag)),
                              Cardinality(Tagged(assets, decrease_tag)), rounding)]]

\* _apply_rate_shift(assets, increase_tag, decrease_tag, kr_percent, baseline, sensitivity)
_apply_rate_shift(assets, increase_tag, decrease_tag, kr_percent, baseline, sensitivity, rounding) ==
    ApplyShift(assets, increase_tag, decrease_tag, RateShift(kr_percent, baseline, sensitivity),
               rounding)

\* Lines 98-103: the tags and figures of the shift of each profile.
ShiftedTemplate(profile, assets, kr_percent, rounding) ==
    IF profile = "conservative"
    THEN _apply_rate_shift(assets, "bonds", "dividends", kr_percent, 110000, 100, rounding)
    ELSE IF profile = "aggressive"
    THEN _apply_rate_shift(assets, "bonds", "growth", kr_percent, 115000, 60, rounding)
    ELSE _apply_rate_shift(assets, "bonds", "growth", kr_percent, 110000, 80, rounding)

\* Lines 222-230 with total = sum(max(asset.weight, 0.0) for asset in assets)
NormalizedBy(assets, total, rounding) ==
    IF total <= 0
    THEN [i \in 1..Len(assets) |->
            [assets[i] EXCEPT !.weight = Quotient(Units(1), Len(assets), rounding)]]
    ELSE [i \in 1..Len(assets) |->
            [assets[i] EXCEPT !.weight = Quotient(Max({@, 0}) * Units(1), total, rounding)]]

\* _normalize_weights(assets)
_normalize_weights(assets, rounding) ==
    NormalizedBy(assets, SeqSum([i \in 1..Len(assets) |-> Max({assets[i].weight, 0})]), rounding)

\* Variant: the amount is cut to its whole part.
WholePart(amount) == amount \div 100

\* Line 107: int(Decimal(str(amount)).quantize(Decimal("1"), rounding=ROUND_HALF_UP))
\* of a non-negative amount in hundredths.
TotalAmount(amount) == (amount + 50) \div 100

\* Line 108: Decimal(str(asset.weight)) * Decimal(total_amount), in units of 10^-4.
RawValues(assets, total_amount) == [i \in 1..Len(assets) |-> assets[i].weight * total_amount]

\* Line 109: int(value.to_integral_value(rounding=ROUND_DOWN)) of values that
\* are not negative.
RoundedDown(raw_values) == [i \in 1..Len(raw_values) |-> raw_values[i] \div Units(1)]

\* The key of lines 115 and 127: item[1] - Decimal(amounts[item[0]])
FractionOf(raw_values, amounts, i) == raw_values[i] - amounts[i] * Units(1)

\* The index sorted() puts first among rest: the largest key when reverse,
\* else the smallest, and of equal keys the earliest (the sort is stable).
FirstOf(rest, key, reverse) ==
    Min({i \in rest : \A j \in rest : IF reverse THEN key[i] >= key[j] ELSE key[i] <= key[j]})

\* Lines 113-117 and 125-128: the indexes in the order of sorted().
RECURSIVE SortedOrder(_, _, _, _)
SortedOrder(rest, key, reverse, order) ==
    IF rest = {} THEN order
    ELSE SortedOrder(rest \ {FirstOf(rest, key, reverse)}, key, reverse,
                     Append(order, FirstOf(rest, key, reverse)))

\* What a remainder loop ends in: the amounts, the remainder left, the number
\* of its iterations, and whether it ended within MaxLoopSteps iterations.
LoopEnd(amounts, remainder, idx, ended) ==
    [amounts |-> amounts, remainder |-> remainder, steps |-> idx, ended |-> ended]

\* Variant: the remainder is left undistributed.
NoDistribution(amounts, order, remainder, idx) == LoopEnd(amounts, remainder, idx, TRUE)

\* Lines 118-123: while remainder > 0 and order
RECURSIVE Distribute(_, _, _, _)
Distribute(amounts, order, remainder, idx) ==
    IF ~(remainder > 0 /\ order # <<>>) THEN LoopEnd(amounts, remainder, idx, TRUE)
    ELSE IF idx >= MaxLoopSteps THEN LoopEnd(amounts, remainder, idx, FALSE)
    ELSE Distribute([amounts EXCEPT ![order[(idx % Len(order)) + 1]] = @ + 1], order,
                    remainder - 1, idx + 1)

\* Lines 129-135: while remainder < 0 and order
RECURSIVE Withdraw(_, _, _, _)
Withdraw(amounts, order, remainder, idx) ==
    IF ~(remainder < 0 /\ order # <<>>) THEN LoopEnd(amounts, remainder, idx, TRUE)
    ELSE IF idx >= MaxLoopSteps THEN LoopEnd(amounts, remainder, idx, FALSE)
    ELSE IF amounts[order[(idx % Len(order)) + 1]] > 0
    THEN Withdraw([amounts EXCEPT ![order[(idx % Len(order)) + 1]] = @ - 1], order,
                  remainder + 1, idx + 1)
    ELSE Withdraw(amounts, order, remainder, idx + 1)

\* Lines 111-135 with the amounts of line 109.
Remaindered(raw_values, amounts, remainder) ==
    IF remainder > 0
    THEN Distribute(amounts,
                    SortedOrder(DOMAIN raw_values,
                                [i \in DOMAIN raw_values |-> FractionOf(raw_values, amounts, i)],
                                TRUE, <<>>),
                    remainder, 0)
    ELSE IF remainder < 0
    THEN Withdraw(amounts,
                  SortedOrder(DOMAIN raw_values,
                              [i \in DOMAIN raw_values |-> FractionOf(raw_values, amounts, i)],
                              FALSE, <<>>),
                  remainder, 0)
    ELSE LoopEnd(amounts, remainder, 0, TRUE)

\* Lines 108-135 with the weights of line 105 and the total of line 107.
SplitRaw(raw_values, total_amount) ==
    Remaindered(raw_values, RoundedDown(raw_values),
                total_amount - SeqSum(RoundedDown(raw_values)))
SplitAmount(assets, total_amount) == SplitRaw(RawValues(assets, total_amount), total_amount)

\* Lines 94-105: the assets of the profile after the shift for the key rate
\* and the normalization.
WeightedAssets(profile, rate, rounding) ==
    _normalize_weights(
        ShiftedTemplate(profile,
                        [i \in 1..Len(PORTFOLIO_TEMPLATES[profile]) |->
                            WithWeightUnits(PORTFOLIO_TEMPLATES[profile][i])],
                        _rate_to_percent(rate), rounding),
        rounding)

\* What propose_allocation ends in when its remainder loop ends in split: the
\* plan of lines 139-175, or no return at all when the loop does not end.
AllocationOf(assets, split, quotes) ==
    IF split.ended THEN PlanLoop(assets, split.amounts, quotes, 1, <<>>, <<>>)
    ELSE AllocationResult(Some("no return"), <<>>, <<>>)

\* propose_allocation(amount, risk) from line 96 on, get_key_rate() having
\* ended in kr; amount is in hundredths.
AllocationFor(amount, risk, kr, quotes, rounding) ==
    IF kr.raised # Nil THEN AllocationResult(kr.raised, <<>>, <<>>)
    ELSE AllocationOf(WeightedAssets(ProfileOf(risk), Val(kr.rate), rounding),
                      SplitAmount(WeightedAssets(ProfileOf(risk), Val(kr.rate), rounding),
                                  TotalAmount(amount)),
                      quotes)

-----------------------------------------------------------------------------
(* handlers.py: the balance of a user and its adjustment. Amounts are in     *)
(* thousandths; round(x, 2) of a float that stands for a decimal half-way    *)
(* between two hundredths goes down or up with the double nearest to it, as  *)
(* `tie` says.                                                               *)

\* Contribution(user_id, date, amount, source) as far as the balance reads it.
Contribution(user_id, amount, source) ==
    [user_id |-> user_id, amount |-> amount, source |-> source]

\* load_balance(session, user_id): func.sum(Contribution.amount) of the
\* user's rows, or 0.0
load_balance(session, user_id) ==
    SeqSum([i \in 1..Len(session.contributions) |->
              IF session.contributions[i].user_id = user_id
              THEN session.contributions[i].amount ELSE 0])

Ties == {"down", "up"}
\* round(x, 2)
Round2(x, tie) ==
    IF x % 10 < 5 THEN x - (x % 10)
    ELSE IF x % 10 > 5 THEN x - (x % 10) + 10
    ELSE IF tie = "up" THEN x + 5 ELSE x - 5

\* Variant: a record is added whatever the delta.
AlwaysAdded(delta) == TRUE

\* Line 307: `if delta:`
AdjustmentAdded(delta) == delta # 0

\* Lines 307-316: session.add(Contribution(..., amount=delta, source="adjustment"))
\* and commit, when the delta is not zero.
WithAdjustment(session, user_id, delta) ==
    IF AdjustmentAdded(delta)
    THEN [session EXCEPT !.contributions = Append(@, Contribution(user_id, delta, "adjustment"))]
    ELSE session

\* What record_balance_adjustment ends in: the database, the figures of
\* lines 305-317 and the reply.
AdjustmentEnd(session, known, current, delta, reply) ==
    [db |-> session, known |-> known, current |-> current, delta |-> delta,
     new_total |-> current + delta, reply |-> reply]

\* Lines 305-329 for a known user, delta being that of line 306.
AdjustedBy(session, user_id, current, delta) ==
    AdjustmentEnd(WithAdjustment(session, user_id, delta), TRUE, current, delta,
                  IF delta = 0 THEN "Balans uzhe sostavlyaet" ELSE "Balans obnovlyon")

\* record_balance_adjustment(update, ctx, desired_total) of the user user_id
record_balance_adjustment(session, user_id, desired_total, tie) ==
    IF user_id \notin session.users
    THEN AdjustmentEnd(session, FALSE, 0, 0, "Snachala /start")
    ELSE AdjustedBy(session, user_id, load_balance(session, user_id),
                    Round2(desired_total - load_balance(session, user_id), tie))

-----------------------------------------------------------------------------
(* The state machine *)

NoCall ==
    [op |-> "none", ticker |-> <<>>, w |-> NoAnswers,
     now |-> 0, route |-> Nil, cached |-> Nil, hit |-> FALSE, raised |-> Nil,
     quote |-> Nil, log |-> <<>>]

\* The API keys a deployment may have configured.
KeySettings ==
    [TWELVEDATA_API_KEY : {Nil, Some(""), Some("td-key")},
     FINNHUB_API_KEY : {Nil, Some(""), Some("fh-key")}]
NoKeys == [TWELVEDATA_API_KEY |-> Nil, FINNHUB_API_KEY |-> Nil]
BothKeys == [TWELVEDATA_API_KEY |-> Some("td-key"), FINNHUB_API_KEY |-> Some("fh-key")]

EmptyCache == [k \in {} |-> <<>>]

\* No _http_get call is in progress.
NoHttpCall == [pc |-> "idle"]

\* No call is in progress beside another.
NoCallers == <<>>

\* The database before the first user is known.
NoDatabase == [users |-> {}, contributions |-> <<>>]

\* No scheduled job is running.
NoJob == [pc |-> "idle"]

\* The process after import: empty caches, settings read from the environment.
InitWith(keysets) ==
    /\ clock = 0
    /\ callers = NoCallers
    /\ db = NoDatabase
    /\ settings \in keysets
    /\ QUOTE_CACHE = EmptyCache
    /\ SECURITY_CACHE = EmptyCache
    /\ KEY_RATE_CACHE = Nil
    /\ HISTORY_CACHE = EmptyCache
    /\ INDEX_CACHE = EmptyCache
    /\ http = NoHttpCall
    /\ job = NoJob
    /\ UNIVERSE_CACHE = Nil
    /\ universe_file = Nil
    /\ last = NoCall

\* resolve_source(ticker) has ended in res.
ResolveSourceDone(ticker, sec, res) ==
    /\ SECURITY_CACHE' = res.cache
    /\ last' = [NoCall EXCEPT !.op = "resolve_source", !.ticker = ticker,
                              !.w = [NoAnswers EXCEPT !.sec = sec],
                              !.now = clock, !.route = Some(res.route),
                              !.raised = res.raised, !.log = res.log]
    /\ UNCHANGED <<clock, settings, QUOTE_CACHE, KEY_RATE_CACHE, HISTORY_CACHE, http, INDEX_CACHE, job, UNIVERSE_CACHE, universe_file, callers, db>>

\* A caller runs resolve_source(ticker); sec is what the securities endpoint
\* answers if it is asked.
ResolveSourceCall(ticker, sec) ==
    ResolveSourceDone(ticker, sec, resolve_source(ticker, SECURITY_CACHE, clock, sec))

\* get_quote(ticker) has ended in r.
GetQuoteDone(ticker, w, r) ==
    /\ r.now <= MaxClock
    /\ clock' = r.now
    /\ QUOTE_CACHE' = r.qcache
    /\ SECURITY_CACHE' = r.scache
    /\ last' = [op |-> "get_quote", ticker |-> ticker, w |-> w, now |-> r.now,
                route |-> Some(r.route), cached |-> r.cached, hit |-> r.hit,
                raised |-> r.raised, quote |-> r.quote, log |-> r.log]
    /\ UNCHANGED <<settings, KEY_RATE_CACHE, HISTORY_CACHE, http, INDEX_CACHE, job, UNIVERSE_CACHE, universe_file, callers, db>>

\* A caller runs get_quote(ticker) while the upstreams answer as w says.
GetQuoteCall(ticker, w) ==
    GetQuoteDone(ticker, w, get_quote(ticker, QUOTE_CACHE, SECURITY_CACHE, settings, w))

\* get_key_rate() has ended in r.  The call record also says where the value
\* in the cache came from, before (cached_from) and after (origin) the call.
GetKeyRateDone(w, r, before) ==
    /\ KEY_RATE_CACHE' = r.cache
    /\ last' = [op |-> "get_key_rate", now |-> clock, ru |-> w.ru, cbr |-> w.cbr,
                raised |-> r.raised, rate |-> r.rate, log |-> r.log, hit |-> r.hit,
                source |-> r.source, cached |-> KEY_RATE_CACHE, cached_from |-> before,
                origin |-> IF r.source \in {"ruonia", "cbr"} THEN "upstream"
                           ELSE IF r.source = "fallback" THEN "fallback" ELSE before]
    /\ UNCHANGED <<clock, settings, QUOTE_CACHE, SECURITY_CACHE, HISTORY_CACHE, http, INDEX_CACHE, job, UNIVERSE_CACHE, universe_file, callers, db>>

\* A caller runs get_key_rate() while the two sources answer as w says.
GetKeyRateCall(w) ==
    GetKeyRateDone(w, get_key_rate(KEY_RATE_CACHE, settings.KEY_RATE_FALLBACK, clock, w),
                   IF last.op = "get_key_rate" THEN last.origin ELSE "none")

\* The answers get_key_rate() can meet in the current state: a source that
\* is not asked keeps NoAnswer.
KeyRateWorlds(ruAnswers, cbrAnswers) ==
    IF get_key_rate(KEY_RATE_CACHE, settings.KEY_RATE_FALLBACK, clock,
                    [ru |-> NoAnswer, cbr |-> NoAnswer]).hit
    THEN {[ru |-> NoAnswer, cbr |-> NoAnswer]}
    ELSE UNION { { [ru |-> a, cbr |-> b] :
                      b \in IF _fetch_ruonia_key_rate(a).rate # Nil THEN {NoAnswer}
                            ELSE cbrAnswers } : a \in ruAnswers }

\* get_security_history(ticker, board, days) has ended in r, lat ticks after
\* it read the clock.
GetHistoryDone(ticker, board, days, w, lat, r) ==
    /\ clock + lat <= MaxClock
    /\ clock' = clock + lat
    /\ HISTORY_CACHE' = r.cache
    /\ last' = [op |-> "get_security_history", ticker |-> ticker, board |-> board,
                days |-> days, now |-> clock, rows |-> r.rows, log |-> r.log,
                hit |-> r.hit,
                cached |-> CacheGet(HISTORY_CACHE, <<Upper(ticker), Upper(board), days>>)]
    /\ UNCHANGED <<settings, QUOTE_CACHE, SECURITY_CACHE, KEY_RATE_CACHE, http, INDEX_CACHE, job, UNIVERSE_CACHE, universe_file, callers, db>>

\* A caller runs get_security_history(ticker, board, days) while the history
\* endpoint answers as w says; a call that makes requests takes lat ticks.
GetHistoryCall(ticker, board, days, w, lat) ==
    /\ (w = <<>>) => lat = 0
    /\ GetHistoryDone(ticker, board, days, w, lat,
                      get_security_history(ticker, board, days, HISTORY_CACHE, clock, w))

\* The answer lists get_security_history can meet in the current state, the
\* answers drawn from the set `answers`: the requests of the run are answered
\* one after the other.  w answers the first requests.
RECURSIVE HistoryWorlds(_, _, _, _, _), HistoryWorldsAfter(_, _, _, _, _, _)
HistoryWorlds(ticker, board, days, answers, w) ==
    HistoryWorldsAfter(ticker, board, days, answers, w,
                       get_security_history(ticker, board, days, HISTORY_CACHE, clock, w))

HistoryWorldsAfter(ticker, board, days, answers, w, r) ==
    IF Len(r.log) <= Len(w) THEN {w}
    ELSE UNION { HistoryWorlds(ticker, board, days, answers, Append(w, a)) : a \in answers }

\* get_index_value(name) has ended in r.
GetIndexDone(name, resp, r) ==
    /\ INDEX_CACHE' = r.cache
    /\ last' = [op |-> "get_index_value", name |-> name, now |-> clock,
                resp |-> IF r.log = <<>> THEN NoAnswer ELSE resp,
                raised |-> r.raised, value |-> r.value, log |-> r.log, hit |-> r.hit,
                cached |-> CacheGet(INDEX_CACHE, Upper(name))]
    /\ UNCHANGED <<clock, settings, QUOTE_CACHE, SECURITY_CACHE, KEY_RATE_CACHE, HISTORY_CACHE,
                   http, job, UNIVERSE_CACHE, universe_file, callers, db>>

\* A caller runs get_index_value(name) while the index endpoint answers resp.
GetIndexCall(name, resp) ==
    GetIndexDone(name, resp, get_index_value(name, INDEX_CACHE, clock, resp))

\* settings.TINKOFF_UNIVERSE_PATH
UniversePath == "data/tbank_universe.yml"

\* is_tradable(ticker, sec_type) has ended in r.
IsTradableDone(ticker, sec_type, r) ==
    /\ UNIVERSE_CACHE' = r.cache
    /\ last' = [op |-> "is_tradable", ticker |-> ticker, sec_type |-> sec_type,
                answer |-> r.answer, file |-> universe_file, cached |-> UNIVERSE_CACHE]
    /\ UNCHANGED <<clock, settings, QUOTE_CACHE, SECURITY_CACHE, KEY_RATE_CACHE, HISTORY_CACHE,
                   INDEX_CACHE, http, job, universe_file, callers, db>>

\* A caller runs is_tradable(ticker, sec_type).
IsTradableCall(ticker, sec_type) ==
    IsTradableDone(ticker, sec_type,
                   is_tradable(ticker, sec_type, UNIVERSE_CACHE, UniversePath, universe_file))

\* The universe file is written with the YAML document data; its
\* modification time moves on.
WriteUniverse(data) ==
    /\ (IF universe_file = Nil THEN 0 ELSE Val(universe_file).mtime) < MaxMtime
    /\ universe_file' = Some([mtime |-> (IF universe_file = Nil THEN 1
                                         ELSE Val(universe_file).mtime + 1),
                              data |-> data])
    /\ UNCHANGED <<clock, settings, QUOTE_CACHE, SECURITY_CACHE, KEY_RATE_CACHE, HISTORY_CACHE,
                   INDEX_CACHE, http, job, UNIVERSE_CACHE, last, callers, db>>

\* propose_allocation(amount, risk) has ended in r, get_key_rate() in kr.
ProposeAllocationDone(risk, amounts, quotes, kr, r) ==
    /\ KEY_RATE_CACHE' = kr.cache
    /\ last' = [op |-> "propose_allocation", risk |-> risk, amounts |-> amounts,
                quotes |-> quotes, rate |-> kr.rate, raised |-> r.raised, plan |-> r.plan,
                log |-> r.log, file |-> universe_file]
    /\ UNCHANGED <<clock, settings, QUOTE_CACHE, SECURITY_CACHE, HISTORY_CACHE, INDEX_CACHE,
                   http, job, UNIVERSE_CACHE, universe_file, callers, db>>

ProposeAllocationWith(risk, amounts, quotes, kr) ==
    ProposeAllocationDone(risk, amounts, quotes, kr,
                          propose_allocation(risk, kr, amounts, quotes))

\* A caller runs propose_allocation(amount, risk) while the key-rate sources
\* answer as w says and get_security_quote ends as quotes says.
ProposeAllocationCall(risk, amounts, quotes, w) ==
    ProposeAllocationWith(risk, amounts, quotes,
                          get_key_rate(KEY_RATE_CACHE, settings.KEY_RATE_FALLBACK, clock, w))

\* The scheduler fires a job: it reads the users and the day of the month.
JobStart(name, users, today) ==
    /\ job.pc # "running"
    /\ job' = JobStarted(name, users, today)
    /\ UNCHANGED <<clock, settings, QUOTE_CACHE, SECURITY_CACHE, KEY_RATE_CACHE, HISTORY_CACHE,
                   INDEX_CACHE, http, UNIVERSE_CACHE, universe_file, last, callers, db>>

\* One iteration of ping_income_days.
PingStep ==
    /\ job.pc = "running" /\ job.name = "ping_income_days"
    /\ job' = PingIteration(job, job.users[job.i])
    /\ UNCHANGED <<clock, settings, QUOTE_CACHE, SECURITY_CACHE, KEY_RATE_CACHE, HISTORY_CACHE,
                   INDEX_CACHE, http, UNIVERSE_CACHE, universe_file, last, callers, db>>

NudgeStepDone(kr, r) ==
    /\ job' = NudgeIteration(job, job.users[job.i], r)
    /\ KEY_RATE_CACHE' = kr.cache
    /\ UNCHANGED <<clock, settings, QUOTE_CACHE, SECURITY_CACHE, HISTORY_CACHE, INDEX_CACHE,
                   http, UNIVERSE_CACHE, universe_file, last, callers, db>>

NudgeStepWith(amounts, quotes, kr) ==
    NudgeStepDone(kr, propose_allocation(job.users[job.i].risk, kr, amounts, quotes))

\* One iteration of soft_nudge: propose_allocation runs for the user while
\* the key-rate sources answer as w says and the quotes end as quotes says.
NudgeStep(amounts, quotes, w) ==
    /\ job.pc = "running" /\ job.name = "soft_nudge"
    /\ NudgeStepWith(amounts, quotes,
                     get_key_rate(KEY_RATE_CACHE, settings.KEY_RATE_FALLBACK, clock, w))

\* One iteration of push_daily_ideas: r is the outcome of
\* rank_and_filter(generate_ideas(u.risk or "balanced")).
IdeasStep(r) ==
    /\ job.pc = "running" /\ job.name = "push_daily_ideas"
    /\ job' = IdeasIteration(job, job.users[job.i], r)
    /\ UNCHANGED <<clock, settings, QUOTE_CACHE, SECURITY_CACHE, KEY_RATE_CACHE, HISTORY_CACHE,
                   INDEX_CACHE, http, UNIVERSE_CACHE, universe_file, last, callers, db>>

\* generate_ideas(risk) has ended in r.
GenerateIdeasDone(assets, worlds, r) ==
    /\ KEY_RATE_CACHE' = r.cache
    /\ last' = [op |-> "generate_ideas", assets |-> assets, worlds |-> worlds,
                raised |-> r.raised, ideas |-> r.ideas, built |-> r.built]
    /\ UNCHANGED <<clock, settings, QUOTE_CACHE, SECURITY_CACHE, HISTORY_CACHE, INDEX_CACHE,
                   http, job, UNIVERSE_CACHE, universe_file, callers, db>>

GenerateIdeasWith(assets, worlds) ==
    GenerateIdeasDone(assets, worlds, generate_ideas(assets, worlds, KEY_RATE_CACHE))

\* A caller runs generate_ideas(risk): portfolio_assets(risk) returns assets,
\* the calls made for each ticker end as w.of says, the key-rate sources
\* answer as w.kr says and CoinGecko as w.coin says.
GenerateIdeasCall(assets, w) ==
    GenerateIdeasWith(assets, [w EXCEPT !.of = [t \in DOMAIN w.of |->
                                   w.of[t] @@ [kr |-> w.kr, fallback |-> settings.KEY_RATE_FALLBACK,
                                               now |-> clock]]])

\* rank_and_filter(ideas) has ended in r.
RankAndFilterDone(ideas, today, r) ==
    /\ KEY_RATE_CACHE' = r.cache
    /\ last' = [op |-> "rank_and_filter", ideas |-> ideas, today |-> today,
                raised |-> r.raised, ranked |-> r.ranked, scored |-> r.scored]
    /\ UNCHANGED <<clock, settings, QUOTE_CACHE, SECURITY_CACHE, HISTORY_CACHE, INDEX_CACHE,
                   http, job, UNIVERSE_CACHE, universe_file, callers, db>>

\* A caller runs rank_and_filter(ideas) on day today while the key-rate
\* sources answer as w says.
RankAndFilterCall(ideas, today, w) ==
    RankAndFilterDone(ideas, today,
                      rank_and_filter(ideas, [cfg |-> settings, today |-> today, now |-> clock,
                                              kr |-> w],
                                      KEY_RATE_CACHE))

\* A handler applies a quote to a line of the plan.
ApplyQuoteCall(line, quote) ==
    /\ last' = [op |-> "_apply_quote_to_line", line |-> line, quote |-> quote,
                result |-> _apply_quote_to_line(line, quote)]
    /\ UNCHANGED <<clock, settings, QUOTE_CACHE, SECURITY_CACHE, KEY_RATE_CACHE, HISTORY_CACHE,
                   INDEX_CACHE, http, job, UNIVERSE_CACHE, universe_file, callers, db>>

\* A caller enters get_quote(ticker) and resolves the route (line 195); sec
\* is what the securities endpoint answers if it is asked.
QuoteCallerRouteWith(c, ticker, res) ==
    /\ callers' = [callers EXCEPT ![c] = CallerRouted(StartedCaller(ticker), res)]
    /\ SECURITY_CACHE' = res.cache
    /\ UNCHANGED <<clock, settings, QUOTE_CACHE, KEY_RATE_CACHE, HISTORY_CACHE, INDEX_CACHE,
                   http, job, UNIVERSE_CACHE, universe_file, last, db>>
QuoteCallerRoute(c, ticker, sec) ==
    /\ callers[c].pc = "idle"
    /\ QuoteCallerRouteWith(c, ticker, resolve_source(ticker, SECURITY_CACHE, clock, sec))

\* The caller reads the slot and the clock (lines 197-200).
QuoteCallerLookup(c) ==
    /\ callers[c].pc = "routed"
    /\ callers' = [callers EXCEPT ![c] =
                      CallerLooked(callers[c], CacheGet(QUOTE_CACHE, CacheKeyOf(callers[c])),
                                   clock, MissingBeside(c, callers))]
    /\ UNCHANGED <<clock, settings, QUOTE_CACHE, SECURITY_CACHE, KEY_RATE_CACHE, HISTORY_CACHE,
                   INDEX_CACHE, http, job, UNIVERSE_CACHE, universe_file, last, db>>

\* The caller runs the fetcher of its route (lines 202-216) while the
\* upstreams answer it as w says.
QuoteCallerFetchWith(c, w, got) ==
    /\ callers' = [callers EXCEPT ![c] = CallerFetched(callers[c], w, clock, got)]
    /\ SECURITY_CACHE' = got.cache
    /\ UNCHANGED <<clock, settings, QUOTE_CACHE, KEY_RATE_CACHE, HISTORY_CACHE, INDEX_CACHE,
                   http, job, UNIVERSE_CACHE, universe_file, last, db>>
QuoteCallerFetch(c, w) ==
    /\ callers[c].pc = "missed"
    /\ QuoteCallerFetchWith(c, w, FetchQuote(callers[c].normalized, Val(callers[c].route),
                                             SECURITY_CACHE, clock, w, settings))

\* The caller stores a priced quote and returns (lines 218-220).
QuoteCallerReturn(c) ==
    /\ callers[c].pc = "fetched"
    /\ QUOTE_CACHE' = CallerStore(QUOTE_CACHE, callers[c])
    /\ callers' = [callers EXCEPT ![c].pc = "done"]
    /\ UNCHANGED <<clock, settings, SECURITY_CACHE, KEY_RATE_CACHE, HISTORY_CACHE, INDEX_CACHE,
                   http, job, UNIVERSE_CACHE, universe_file, last, db>>

\* get_quote(ticker) has ended in r; the call record also keeps how the call
\* before it ended (prev).
GetQuoteAgainDone(ticker, w, r) ==
    /\ r.now <= MaxClock
    /\ clock' = r.now
    /\ QUOTE_CACHE' = r.qcache
    /\ SECURITY_CACHE' = r.scache
    /\ last' = [op |-> "get_quote", ticker |-> ticker, w |-> w, now |-> r.now,
                route |-> Some(r.route), cached |-> r.cached, hit |-> r.hit,
                raised |-> r.raised, quote |-> r.quote, log |-> r.log,
                prev |-> [op |-> last.op, ticker |-> last.ticker, raised |-> last.raised,
                          quote |-> last.quote]]
    /\ UNCHANGED <<settings, KEY_RATE_CACHE, HISTORY_CACHE, http, INDEX_CACHE, job,
                   UNIVERSE_CACHE, universe_file, callers, db>>

\* A caller runs get_quote(ticker) after an earlier call, while the upstreams
\* answer as w says.
GetQuoteAgain(ticker, w) ==
    GetQuoteAgainDone(ticker, w, get_quote(ticker, QUOTE_CACHE, SECURITY_CACHE, settings, w))

\* Caller c enters is_tradable with a symbol and a type that reach line 109
\* and takes the stat of the universe file (lines 62-65, 80).
TradableCallerStat(c, symbol, sec_type) ==
    /\ callers[c].pc \in {"idle", "done"}
    /\ callers' = [callers EXCEPT ![c] = UniverseStated(symbol, sec_type, StatOf(universe_file))]
    /\ UNCHANGED <<clock, settings, QUOTE_CACHE, SECURITY_CACHE, KEY_RATE_CACHE, HISTORY_CACHE,
                   INDEX_CACHE, http, job, UNIVERSE_CACHE, universe_file, last, db>>

\* Caller c holds _LOCK with what it loaded or found cached.
TradableCallerLockedWith(c, loaded) ==
    /\ UNIVERSE_CACHE' = loaded.cache
    /\ callers' = [callers EXCEPT ![c] = UniverseAnswered(callers[c], loaded)]
    /\ UNCHANGED <<clock, settings, QUOTE_CACHE, SECURITY_CACHE, KEY_RATE_CACHE, HISTORY_CACHE,
                   INDEX_CACHE, http, job, universe_file, last, db>>

\* Caller c takes _LOCK, compares its stat with the cache, loads the file if
\* they differ, and returns (lines 66-78, 81-91, 110-120).
TradableCallerLocked(c) ==
    /\ callers[c].pc = "stated"
    /\ TradableCallerLockedWith(c, LoadWithStat(UNIVERSE_CACHE, UniversePath, callers[c].stat,
                                                universe_file))

\* propose_allocation(amount, risk) has ended in r, get_key_rate() in kr.
ProposeAmountDone(amount, risk, kr, rounding, r) ==
    /\ KEY_RATE_CACHE' = kr.cache
    /\ last' = [op |-> "propose_allocation", amount |-> amount, risk |-> risk,
                rate |-> kr.rate, rounding |-> rounding, raised |-> r.raised, plan |-> r.plan, log |-> r.log,
                file |-> universe_file]
    /\ UNCHANGED <<clock, settings, QUOTE_CACHE, SECURITY_CACHE, HISTORY_CACHE, INDEX_CACHE,
                   http, job, UNIVERSE_CACHE, universe_file, callers, db>>

ProposeAmountWith(amount, risk, quotes, kr, rounding) ==
    ProposeAmountDone(amount, risk, kr, rounding,
                      AllocationFor(amount, risk, kr, quotes, rounding))

\* A caller runs propose_allocation(amount, risk) with an amount in
\* hundredths while the key-rate sources answer as w says,
\* get_security_quote ends as quotes says and the float quotients round as
\* rounding says.
ProposeAmountCall(amount, risk, quotes, w, rounding) ==
    ProposeAmountWith(amount, risk, quotes,
                      get_key_rate(KEY_RATE_CACHE, settings.KEY_RATE_FALLBACK, clock, w),
                      rounding)

\* record_balance_adjustment(update, ctx, desired_total) of user_id has ended
\* in r; repeated says that the call before was the same adjustment.
BalanceAdjustmentDone(user_id, desired_total, tie, r, repeated) ==
    /\ db' = r.db
    /\ last' = [op |-> "record_balance_adjustment", user_id |-> user_id,
                desired_total |-> desired_total, tie |-> tie, known |-> r.known,
                current |-> r.current, delta |-> r.delta, new_total |-> r.new_total,
                reply |-> r.reply, before |-> db, repeated |-> repeated]
    /\ UNCHANGED <<clock, settings, QUOTE_CACHE, SECURITY_CACHE, KEY_RATE_CACHE, HISTORY_CACHE,
                   INDEX_CACHE, http, job, UNIVERSE_CACHE, universe_file, callers>>

\* The user user_id sends a desired balance in the adjust mode.
BalanceAdjustmentCall(user_id, desired_total, tie) ==
    /\ Len(db.contributions) < MaxContributions
    /\ BalanceAdjustmentDone(user_id, desired_total, tie,
                             record_balance_adjustment(db, user_id, desired_total, tie),
                             /\ last.op = "record_balance_adjustment"
                             /\ last.user_id = user_id
                             /\ last.desired_total = desired_total)

\* Time passes between calls.
Tick ==
    /\ clock < MaxClock
    /\ clock' = clock + 1
    /\ UNCHANGED <<settings, QUOTE_CACHE, SECURITY_CACHE, KEY_RATE_CACHE, HISTORY_CACHE, http, last, INDEX_CACHE, job, UNIVERSE_CACHE, universe_file, callers, db>>

\* _http_get: the attempts of one call.

\* What the wire gives one attempt: no connection, no answer in time, or an
\* HTTP status.
TransportFailures ==
    {[kind |-> "connection_error", status |-> 0], [kind |-> "timeout", status |-> 0]}
HttpStatus(code) == [kind |-> "status", status |-> code]
WireOutcomes == TransportFailures \cup {HttpStatus(code) : code \in {200, 404, 429, 500}}

\* The packages app/_requests.py and app/_tenacity.py find at import: the
\* real one, or the fallback defined in the module.
Builds == [requests : {"real", "shim"}, tenacity : {"real", "shim"}]

\* requests.get on one attempt: "raise" (a RequestException) or "return".
\* The real package returns a response for every status; the urllib fallback
\* of app/_requests.py turns urllib's HTTPError into HTTPError, a subclass of
\* RequestException, and URLError into RequestException.
GetRaises(build, outcome) ==
    \/ outcome \in TransportFailures
    \/ build.requests = "shim" /\ outcome.status >= 400

\* The retry decorator: tenacity retries a RequestException while fewer than
\* MaxAttempts attempts were made and re-raises it afterwards; the fallback
\* decorator of app/_tenacity.py returns the function undecorated.
RetryAllowed(build, attempts) == build.tenacity = "real" /\ attempts < MaxAttempts

\* A caller enters _http_get.
HttpGetStart ==
    /\ http.pc # "trying"
    /\ http' = [http EXCEPT !.pc = "trying", !.wire = <<>>]
    /\ UNCHANGED <<clock, settings, QUOTE_CACHE, SECURITY_CACHE, KEY_RATE_CACHE, HISTORY_CACHE, last, INDEX_CACHE, job, UNIVERSE_CACHE, universe_file, callers, db>>

\* One attempt of the call in progress has ended in outcome.
AttemptDone(outcome, attempts) ==
    /\ http' = [http EXCEPT !.wire = Append(@, outcome),
                            !.pc = IF ~GetRaises(http.build, outcome) THEN "returned"
                                   ELSE IF RetryAllowed(http.build, attempts) THEN "trying"
                                   ELSE "raised"]
    /\ UNCHANGED <<clock, settings, QUOTE_CACHE, SECURITY_CACHE, KEY_RATE_CACHE, HISTORY_CACHE, last, INDEX_CACHE, job, UNIVERSE_CACHE, universe_file, callers, db>>

\* requests.get is called once more.
HttpAttempt ==
    /\ http.pc = "trying"
    /\ \E outcome \in WireOutcomes : AttemptDone(outcome, Len(http.wire) + 1)

\* The field of the world that answers the i-th request of the run r.
SlotOf(r, i) ==
    IF i <= Len(r.rlog) THEN "sec"
    ELSE CASE r.log[i].ep = "moex_securities" -> "sec2"
           [] r.log[i].ep = "moex_marketdata" -> "md"
           [] r.log[i].ep = "moex_history" -> "eod"
           [] r.log[i].ep = "binance" -> "bin"
           [] r.log[i].ep = "twelvedata" -> "td"
           [] r.log[i].ep = "finnhub" -> "fh"

\* The worlds get_quote(ticker) can meet in the current state, the answers
\* drawn from the universe U (a set of answers per field): the requests of
\* the run are answered one after the other, and an endpoint the run never
\* asks keeps NoAnswer.  w answers the first k requests.
RECURSIVE Worlds(_, _, _, _), WorldsAfter(_, _, _, _, _, _)
Worlds(ticker, U, w, k) ==
    WorldsAfter(ticker, U, w, k,
                get_quote(ticker, QUOTE_CACHE, SECURITY_CACHE, settings, w), k + 1)

\* r: the run of get_quote in the world w; n = k + 1.
WorldsAfter(ticker, U, w, k, r, n) ==
    IF Len(r.log) <= k THEN {w}
    ELSE UNION { Worlds(ticker, U, [[w EXCEPT ![SlotOf(r, n)] = a] EXCEPT !.lat = l], n) :
                    a \in U[SlotOf(r, n)],
                    l \in IF SlotOf(r, n) = "sec"
                          THEN {d \in U.lat : clock + d <= MaxClock} ELSE {w.lat} }

\* The securities answers resolve_source(ticker) can meet in the current state.
ResolverWorlds(ticker, answers) ==
    IF resolve_source(ticker, SECURITY_CACHE, clock, NoAnswer).log = <<>>
    THEN {NoAnswer} ELSE answers

-----------------------------------------------------------------------------
(* Inputs: tickers and upstream answers *)

SMAL == <<"S","M","A","L">>
Shares == <<"s","h","a","r","e","s">>
Stock == <<"s","t","o","c","k">>
BoardColumns == <<"boardid", "is_traded", "market", "engine">>

\* Board listings of the securities endpoint, in both payload shapes.
BoardsEmpty == ListBlock(<<>>)
BoardsTraded ==
    ColumnarBlock(BoardColumns, << <<Str(TQBR), Num(1), Str(Shares), Str(Stock)>> >>)
BoardsHalted ==
    ListBlock(<< [boardid |-> Str(TQTF), is_traded |-> Num(0),
                  market |-> Str(Shares), engine |-> Str(Stock)],
                 [boardid |-> Str(SMAL), is_traded |-> Str(<<"n","o">>),
                  market |-> Str(Shares), engine |-> Str(Stock)] >>)
BoardsSecondTraded ==
    ListBlock(<< [boardid |-> Str(SMAL), is_traded |-> Null,
                  market |-> Str(Shares), engine |-> Str(Stock)],
                 [boardid |-> Str(<<"t","q","t","f">>), is_traded |-> Str(<<"Y","e","s">>),
                  engine |-> Str(<<"S","T","O","C","K">>)],
                 [boardid |-> Str(TQBR), is_traded |-> Num(1),
                  market |-> Str(Shares), engine |-> Str(Stock)] >>)
BoardsBothTraded ==
    ListBlock(<< [boardid |-> Str(TQBR), IS_TRADED |-> Bool(TRUE),
                  market |-> Str(Shares), engine |-> Str(Stock)],
                 [boardid |-> Str(TQTF), is_traded |-> Num(1),
                  market |-> Str(<<"e","t","f">>), engine |-> Str(Stock)] >>)
BoardsNoCode ==
    ListBlock(<< [is_traded |-> Num(1), market |-> Str(Shares), engine |-> Str(Stock)] >>)

SecurityRow == [SECID |-> Str(<<"S","B","E","R">>), FACEUNIT |-> Str(SUR), LOTSIZE |-> Num(10)]
SecPayload(boards) == [boards |-> boards, securities |-> ListBlock(<<SecurityRow>>)]

SecFailures == {TransportError, Response(404, Null), Response(500, Null)}
SecAnswers ==
    SecFailures \cup
    {Response(200, SecPayload(b)) :
        b \in {BoardsEmpty, BoardsTraded, BoardsHalted, BoardsSecondTraded,
               BoardsBothTraded, BoardsNoCode}}

\* Raw tickers as callers type them.
OverrideTickers ==
    {<<"f","x","i","t">>, <<"F","X","W","O"," ">>, <<"\t","F","x","G","d">>,
     <<"F","X","R","B">>, <<" ","y","n","d","x","\n">>, <<"Y","N","D","X">>}
CryptoTickers ==
    {<<"B","T","C","U","S","D","T">>, <<" ","e","t","h","b","t","c">>,
     <<"E","T","H","B","U","S","D">>}
\* Letters and a crypto suffix, but fewer than 3 or more than 10 letters.
NearCryptoTickers ==
    {<<"A","B","U","S","D","T">>,
     <<"A","B","C","D","E","F","G","H","I","J","K","B","T","C">>}
ListedTickers == {<<"S","B","E","R">>, <<"s","b","e","r"," ">>}
BlankTickers == {<<>>, <<" "," ">>}

ResolveTickers ==
    OverrideTickers \cup CryptoTickers \cup NearCryptoTickers \cup ListedTickers
        \cup BlankTickers


\* Market data of the board: both payload shapes, prices as numbers and text.
MdLive ==
    Response(200, [marketdata |->
        ColumnarBlock(<<"BOARDID", "LAST", "SYSTIME", "LOTSIZE">>,
                      << <<Str(TQBR), Num(250), Str(<<"T","5">>), Num(10)>> >>)])
MdOtherBoardFirst ==
    Response(200, [marketdata |->
        ListBlock(<< [BOARDID |-> Str(SMAL), LAST |-> Num(99)],
                     [BOARDID |-> Str(<<"t","q","b","r">>), LAST |-> Null,
                      MARKETPRICE |-> Str(<<"2","5","1">>)] >>)])
MdTimestampOnly ==
    Response(200, [marketdata |->
        ListBlock(<< [BOARDID |-> Str(TQBR), LAST |-> Null,
                      UPDATETIME |-> Str(<<"T","7">>)] >>)])
MdZeroPrice ==
    Response(200, [marketdata |->
        ListBlock(<< [BOARDID |-> Str(TQBR), LAST |-> Num(0),
                      CLOSE |-> Str(<<"n","/","a">>)] >>)])
MdNoRows == Response(200, [marketdata |-> ListBlock(<<>>)])
MdAnswers ==
    {MdLive, MdOtherBoardFirst, MdTimestampOnly, MdZeroPrice, MdNoRows,
     TransportError, Response(500, Null)}

\* History of the day.
EodClose ==
    Response(200, [history |->
        ListBlock(<< [BOARDID |-> Str(TQBR), CLOSE |-> Num(248)] >>)])
EodLegalClose ==
    Response(200, [history |->
        ColumnarBlock(<<"CLOSE", "LEGALCLOSEPR">>,
                      << <<Num(1), Num(2)>>, <<Null, Str(<<"2","4","7">>)>> >>)])
EodNoRows == Response(200, [history |-> ListBlock(<<>>)])
EodRowWithoutClose ==
    Response(200, [history |-> ListBlock(<< [BOARDID |-> Str(TQBR)] >>)])
EodAnswers ==
    {EodClose, EodLegalClose, EodNoRows, EodRowWithoutClose,
     Response(404, Null), TransportError, Response(500, Null), Response(503, Null)}

\* Binance ticker payloads.
BinPrice == Response(200, [symbol |-> Str(<<"B","T","C","U","S","D","T">>),
                           price |-> Str(<<"6","5","0","0","0">>)])
BinNoPrice == Response(200, [code |-> Num(0 - 1121)])
BinAnswers == {BinPrice, BinNoPrice, TransportError, Response(400, Null)}

\* Twelve Data payloads.
ErrorStatus == Str(<<"e","r","r","o","r">>)
TdPrice ==
    Response(200, [price |-> Str(<<"1","0","1">>), currency |-> Str(<<"u","s","d">>),
                   timestamp |-> Num(4)])
TdCloseOnly == Response(200, [close |-> Num(99)])
TdNoPrice == Response(200, [symbol |-> Str(<<"F","X","I","T">>)])
TdErrorCredits ==
    Response(200, [status |-> ErrorStatus, code |-> Num(429),
                   message |-> Str(<<"o","u","t"," ","o","f"," ","c","r","e","d","i","t","s">>)])
TdErrorCode401 == Response(200, [status |-> ErrorStatus, code |-> Num(401)])
TdErrorCode403Text ==
    Response(200, [status |-> ErrorStatus, code |-> Str(<<"4","0","3">>),
                   message |-> Str(<<"d","e","n","i","e","d">>)])
TdErrorApiKeyMessage ==
    Response(200, [status |-> ErrorStatus,
                   message |-> Str(<<"I","n","v","a","l","i","d"," ","A","P","I"," ","k","e","y">>)])
TdErrorApikeyParameter ==
    Response(200, [status |-> ErrorStatus, code |-> Num(400),
                   message |-> Str(<<"b","a","d"," ","a","p","i","k","e","y">>)])
TdErrorUnauthorized ==
    Response(200, [status |-> ErrorStatus, code |-> Null,
                   message |-> Str(<<"U","n","a","u","t","h","o","r","i","z","e","d">>)])
TdAnswers ==
    {TdPrice, TdCloseOnly, TdNoPrice, TdErrorCredits, TdErrorCode401, TdErrorCode403Text,
     TdErrorApiKeyMessage, TdErrorApikeyParameter, TdErrorUnauthorized,
     Response(401, Null), Response(403, Null), Response(500, Null), TransportError}

\* Finnhub payloads.
FhPrice == Response(200, [c |-> Num(55), t |-> Num(3)])
FhNoPrice == Response(200, [error |-> Str(<<"n","o">>)])
FhAnswers == {FhPrice, FhNoPrice, TransportError, Response(429, Null)}

-----------------------------------------------------------------------------
(* Specification of the resolver: callers run resolve_source on any ticker *)
(* while the exchange answers anything.                                      *)

InitResolve == InitWith({NoKeys})

\* What the exchange may answer about a ticker: any listing for SBER, a
\* failure for a symbol it does not list; for an override ticker the answer
\* it would give (reachable or not) were it asked.
Reachability ==
    {TransportError, Response(404, Null), Response(200, SecPayload(BoardsTraded))}
ResolveAnswers(ticker) ==
    IF ticker \in OverrideTickers THEN Reachability
    ELSE IF ticker \in ListedTickers THEN ResolverWorlds(ticker, SecAnswers)
    ELSE ResolverWorlds(ticker, SecFailures)

NextResolve ==
    \E ticker \in ResolveTickers :
        \E sec \in ResolveAnswers(ticker) : ResolveSourceCall(ticker, sec)
SpecResolve == InitResolve /\ [][NextResolve]_vars

-----------------------------------------------------------------------------
(* Specification of the fetchers: the first get_quote of a process, under   *)
(* any key configuration and any upstream answers.                          *)

SBER == <<"S","B","E","R">>
BTCUSDT == <<"B","T","C","U","S","D","T">>
FetchTickers == {<<"f","x","i","t">>, <<"Y","N","D","X">>, SBER, BTCUSDT}
FetchUniverse ==
    [sec |-> SecAnswers, lat |-> {0, MaxLatency},
     sec2 |-> {Response(200, SecPayload(BoardsTraded)), Response(404, Null), TransportError},
     md |-> MdAnswers, eod |-> EodAnswers, bin |-> BinAnswers,
     td |-> TdAnswers, fh |-> FhAnswers]

InitFetch == InitWith(KeySettings)
FirstGetQuote ==
    /\ last.op = "none"
    /\ \E ticker \in FetchTickers :
         \E w \in Worlds(ticker, FetchUniverse, NoAnswers, 0) : GetQuoteCall(ticker, w)
NextFetch == FirstGetQuote
SpecFetch == InitFetch /\ [][NextFetch]_vars

-----------------------------------------------------------------------------
(* Specification of the quote cache: callers repeat get_quote while time    *)
(* passes.                                                                  *)

CacheTickers == {SBER, BTCUSDT}
CacheUniverse ==
    [sec |-> {Response(200, SecPayload(BoardsTraded)), Response(200, SecPayload(BoardsNoCode))},
     lat |-> {0, MaxLatency},
     sec2 |-> {Response(200, SecPayload(BoardsTraded)), TransportError},
     md |-> {MdLive, MdTimestampOnly}, eod |-> {EodNoRows},
     bin |-> {BinPrice, BinNoPrice}, td |-> {NoAnswer}, fh |-> {NoAnswer}]

Init == InitWith({NoKeys})
GetQuoteStep ==
    \E ticker \in CacheTickers :
        \E w \in Worlds(ticker, CacheUniverse, NoAnswers, 0) : GetQuoteCall(ticker, w)
Next == GetQuoteStep \/ Tick
Spec == Init /\ [][Next]_vars

-----------------------------------------------------------------------------
(* Specification of the key rate: callers repeat get_key_rate while time   *)
(* passes, with and without a configured fallback.                          *)

\* RUONIA statistics payloads.
RuPercentText ==
    Response(200, [ruonia |->
        ListBlock(<< [TRADEDATE |-> Str(<<"2","0","2","4">>),
                      RUONIA |-> Str(<<"1","3",".","5","0">>)] >>)])
RuFraction ==
    Response(200, [ruonia |-> ListBlock(<< [RUONIA |-> Dec(1350)] >>)])
RuThreshold ==
    Response(200, [data |->
        ColumnarBlock(<<"RUONIA", "VALUE">>,
                      << <<Null, Str(<<" ","1",".","5">>)>>, <<Num(9), Num(9)>> >>)])
RuAboveThreshold ==
    Response(200, [ruonia |-> ListBlock(<< [RUONIAINDEX |-> Dec(15100)] >>)])
RuWholePercent ==
    Response(200, [ruonia |-> ListBlock(<< [RUONIA |-> Num(16), VALUE |-> Num(1)] >>)])
RuNoRows == Response(200, [ruonia |-> ListBlock(<<>>)])
RuNoNumber ==
    Response(200, [ruonia |-> ListBlock(<< [RUONIA |-> Str(<<"n","/","a">>)] >>)])
RuAnswers ==
    {RuPercentText, RuFraction, RuThreshold, RuAboveThreshold, RuWholePercent,
     RuNoRows, RuNoNumber, Response(404, Null), Response(500, Null), TransportError}

\* Central-bank payloads.
CbrSixteen == Response(200, [KeyRate |-> Str(<<"1","6">>)])
CbrComma == Response(200, [KeyRate |-> Str(<<"7",",","5">>)])
CbrSnakeCase == Response(200, [KeyRate |-> Num(0), key_rate |-> Dec(750)])
CbrNoRate == Response(200, [Date |-> Str(<<"2","0","2","4">>)])
CbrEmptyText == Response(200, [KeyRate |-> Str(<<>>)])
CbrAnswers ==
    {CbrSixteen, CbrComma, CbrSnakeCase, CbrNoRate, CbrEmptyText,
     Response(500, Null), TransportError}

\* settings.KEY_RATE_FALLBACK: not configured, or 0.123.
FallbackSettings == [KEY_RATE_FALLBACK : {Nil, Some(1230)}]

InitKeyRate == InitWith(FallbackSettings)
GetKeyRateStep == \E w \in KeyRateWorlds(RuAnswers, CbrAnswers) : GetKeyRateCall(w)
NextKeyRate == GetKeyRateStep \/ Tick
SpecKeyRate == InitKeyRate /\ [][NextKeyRate]_vars

-----------------------------------------------------------------------------
(* Specification of _http_get: calls follow one another, each attempt meets *)
(* any outcome, in any combination of installed packages.                   *)

InitHttp ==
    /\ clock = 0
    /\ callers = NoCallers
    /\ db = NoDatabase
    /\ settings = NoKeys
    /\ QUOTE_CACHE = EmptyCache
    /\ SECURITY_CACHE = EmptyCache
    /\ KEY_RATE_CACHE = Nil
    /\ HISTORY_CACHE = EmptyCache
    /\ INDEX_CACHE = EmptyCache
    /\ job = NoJob
    /\ UNIVERSE_CACHE = Nil
    /\ universe_file = Nil
    /\ last = NoCall
    /\ \E build \in Builds : http = [pc |-> "idle", build |-> build, wire |-> <<>>]
NextHttp == HttpGetStart \/ HttpAttempt
SpecHttp == InitHttp /\ [][NextHttp]_vars

-----------------------------------------------------------------------------
(* Specification of the history paging: the first get_security_history of *)
(* a process, on any board and any answers of the history endpoint.        *)

\* Pages of the history endpoint: a full page as a list of row objects, a
\* full page in columnar form, a short page, and answers without rows.
FullRows == [i \in 1..FullPage |-> [TRADEDATE |-> Num(i), CLOSE |-> Num(250)]]
ShortRows ==
    << [TRADEDATE |-> Str(<<"2","0","2","4","-","0","9","-","0","1">>), CLOSE |-> Num(250)],
       [TRADEDATE |-> Str(<<"2","0","2","4","-","0","9","-","0","2">>), CLOSE |-> Num(252)] >>
PageFullList == Response(200, [history |-> ListBlock(FullRows)])
PageFullColumnar ==
    Response(200, [history |->
        ColumnarBlock(<<"TRADEDATE", "CLOSE">>,
                      [i \in 1..FullPage |-> <<Num(1000 + i), Str(<<"2","5","1">>)>>])])
PageShort == Response(200, [history |-> ListBlock(ShortRows)])
PageEmpty == Response(200, [history |-> ListBlock(<<>>)])
PageNoTable == Response(200, [securities |-> ListBlock(<<>>)])
PageAnswers ==
    {PageFullList, PageFullColumnar, PageShort, PageEmpty, PageNoTable,
     TransportError, Response(500, Null)}

\* Boards: one candidate, two candidates (given in lower case), and a board
\* the table of _market_candidates does not know.
HistoryBoards == {<<"T","Q","B","R">>, <<"t","q","t","f">>, <<"E","Q","B","R">>}
HistoryDays == {5, 150}

InitPages == InitWith({NoKeys})
\* The calls of the model: every board with every window, but for the long
\* window on the board with five candidates.
HistoryCalls ==
    {c \in HistoryBoards \X HistoryDays : Len(_market_candidates(Upper(c[1]))) <= 2 \/ c[2] = 5}
FirstHistory ==
    /\ last.op = "none"
    /\ \E c \in HistoryCalls :
         \E w \in HistoryWorlds(SBER, c[1], c[2], PageAnswers, <<>>) :
            GetHistoryCall(SBER, c[1], c[2], w, 0)
NextPages == FirstHistory
SpecPages == InitPages /\ [][NextPages]_vars

-----------------------------------------------------------------------------
(* Specification of the history cache: callers repeat get_security_history *)
(* while time passes.                                                       *)

CachedHistoryTickers == {SBER, <<"s","b","e","r">>}
CachedHistoryAnswers == {PageFullList, PageShort, PageEmpty, TransportError}

InitHistory == InitWith({NoKeys})
GetHistoryStep ==
    \E ticker \in CachedHistoryTickers, days \in HistoryDays, lat \in {0, 1} :
        \E w \in HistoryWorlds(ticker, TQBR, days, CachedHistoryAnswers, <<>>) :
            GetHistoryCall(ticker, TQBR, days, w, lat)
NextHistory == GetHistoryStep \/ Tick
SpecHistory == InitHistory /\ [][NextHistory]_vars

-----------------------------------------------------------------------------
(* Specification of the reason codes: callers resolve the tickers of the   *)
(* resolver universe and ask for the quotes of the fetcher universe.       *)

InitReasons == InitWith(KeySettings)
\* resolve_source calls follow one another; get_quote is the first call.
ResolveAgain == last.op \in {"none", "resolve_source"} /\ NextResolve
NextReasons == ResolveAgain \/ FirstGetQuote
SpecReasons == InitReasons /\ [][NextReasons]_vars

-----------------------------------------------------------------------------
(* Specification of the index cache: callers ask for index values under    *)
(* several spellings while time passes.                                    *)

IdxCurrent ==
    Response(200, [securities |->
        ListBlock(<<[CURRENTVALUE |-> Str(<<"3","2","1","0",".","5">>)]>>)])
IdxLastValue ==
    Response(200, [securities |-> ListBlock(<<>>),
                   index |-> ListBlock(<<[CURRENTVALUE |-> Null, LASTVALUE |-> Num(3300)]>>)])
IdxNoRows == Response(200, [securities |-> ListBlock(<<>>)])
IdxNoNumber == Response(200, [securities |-> ListBlock(<<[CURRENTVALUE |-> Str(<<"n","/","a">>)]>>)])
IndexAnswers ==
    {IdxCurrent, IdxLastValue, IdxNoRows, IdxNoNumber, TransportError, Response(500, Null)}
IndexNames == {<<"I","M","O","E","X">>, <<"i","m","o","e","x">>, <<"I","m","o","e","x">>,
               <<"R","T","S","I">>}

InitIndex == InitWith({NoKeys})
GetIndexStep == \E name \in IndexNames, resp \in IndexAnswers : GetIndexCall(name, resp)
NextIndex == GetIndexStep \/ Tick
SpecIndex == InitIndex /\ [][NextIndex]_vars

-----------------------------------------------------------------------------
(* Specification of the T-Bank universe: callers ask is_tradable while the *)
(* universe file is created and rewritten.                                 *)

Section(key, values) == [key |-> key, values |-> values]
YamlMapping(entries) == [kind |-> "dict", entries |-> entries]
YamlOther == [kind |-> "other", entries |-> <<>>]

SBERText == <<"S","B","E","R">>
FXITText == <<"F","X","I","T">>
ROSNText == <<"R","O","S","N">>
\* stocks: [sber, gazp;TQBR]   bonds: [OFZ]   etfs: [FXIT]
DocSections ==
    YamlMapping(<< Section(<<"s","t","o","c","k","s">>,
                           <<Some(<<"s","b","e","r">>),
                             Some(<<"g","a","z","p",";","T","Q","B","R">>)>>),
                   Section(<<"b","o","n","d","s">>, <<Some(<<"O","F","Z">>)>>),
                   Section(<<"e","t","f","s">>, <<Some(FXITText)>>) >>)
\* " Stocks ": ROSN   etfs: []   funds: [FXIT]   STOCKS: [null, " fxit "]
DocMixed ==
    YamlMapping(<< Section(<<" ","S","t","o","c","k","s"," ">>, <<Some(ROSNText)>>),
                   Section(<<"e","t","f","s">>, <<>>),
                   Section(<<"f","u","n","d","s">>, <<Some(FXITText)>>),
                   Section(<<"S","T","O","C","K","S">>,
                           <<Nil, Some(<<" ","f","x","i","t"," ">>)>>) >>)
UniverseDocs == {DocSections, DocMixed, YamlOther}

UniverseTickers ==
    {SBERText, <<" ","s","b","e","r"," ">>, <<"g","a","z","p",";","x">>, FXITText, ROSNText,
     <<" "," ">>, <<";","S","B","E","R">>, <<>>}
AskedTypes == SecurityTypes \cup {<<"E","T","F">>}

InitUniverse ==
    /\ clock = 0
    /\ callers = NoCallers
    /\ db = NoDatabase
    /\ settings = NoKeys
    /\ QUOTE_CACHE = EmptyCache
    /\ SECURITY_CACHE = EmptyCache
    /\ KEY_RATE_CACHE = Nil
    /\ HISTORY_CACHE = EmptyCache
    /\ INDEX_CACHE = EmptyCache
    /\ http = NoHttpCall
    /\ job = NoJob
    /\ UNIVERSE_CACHE = Nil
    /\ universe_file \in {Nil} \cup {Some([mtime |-> 1, data |-> d]) : d \in UniverseDocs}
    /\ last = NoCall
IsTradableStep ==
    \E ticker \in UniverseTickers, sec_type \in AskedTypes : IsTradableCall(ticker, sec_type)
WriteUniverseStep == \E data \in UniverseDocs : WriteUniverse(data)
NextUniverse == IsTradableStep \/ WriteUniverseStep
SpecUniverse == InitUniverse /\ [][NextUniverse]_vars

-----------------------------------------------------------------------------
(* Specification of the allocation: a caller asks for a plan while the     *)
(* key-rate sources and the quotes of the plan tickers vary.               *)

\* The tickers of the three templates.
PlanTickers ==
    UNION {{Val(PORTFOLIO_TEMPLATES[p][i].ticker) : i \in 2..Len(PORTFOLIO_TEMPLATES[p])} :
              p \in DOMAIN PORTFOLIO_TEMPLATES}

\* The Quote of get_security_quote with the given price (units of 10^-4)
\* and lot.
SecurityQuote(price, lot, reason) ==
    QuoteReturned(Quote(<<>>, price, SUR, Nil, "MOEX", Some(TQBR), Nil, reason, lot,
                        Nil, Nil, Nil, Nil))
PricedQuote == SecurityQuote(Some(2455000), Some(10), Nil)
UnpricedQuote == SecurityQuote(Nil, Some(10), Some("upstream_unavailable"))
ZeroPriceQuote == SecurityQuote(Some(0), Some(1), Nil)
NoLotQuote == SecurityQuote(Some(2455000), Nil, Nil)
QuoteOutcomes ==
    {UnpricedQuote, ZeroPriceQuote, NoLotQuote, QuoteRaised("MarketDataError"),
     QuoteRaised("RequestException")}

\* Every ticker is priced but for at most one.
QuoteWorlds ==
    {[t \in PlanTickers |-> PricedQuote]}
    \cup {[t \in PlanTickers |-> IF t = odd THEN q ELSE PricedQuote] :
            odd \in PlanTickers, q \in QuoteOutcomes}

Risks == {"conservative", "balanced", "aggressive", "moderate"}
LineAmounts == {[i \in 1..11 |-> a] : a \in {0, 2500}}
AllocationKeyRateWorlds == KeyRateWorlds({RuFraction, TransportError}, {CbrSixteen, TransportError})

InitAllocation ==
    /\ clock = 0
    /\ callers = NoCallers
    /\ db = NoDatabase
    /\ settings \in FallbackSettings
    /\ QUOTE_CACHE = EmptyCache
    /\ SECURITY_CACHE = EmptyCache
    /\ KEY_RATE_CACHE = Nil
    /\ HISTORY_CACHE = EmptyCache
    /\ INDEX_CACHE = EmptyCache
    /\ http = NoHttpCall
    /\ job = NoJob
    /\ UNIVERSE_CACHE = Nil
    /\ universe_file \in {Nil, Some([mtime |-> 1, data |-> DocSections])}
    /\ last = NoCall
FirstAllocation ==
    /\ last.op = "none"
    /\ \E risk \in Risks, amounts \in LineAmounts, quotes \in QuoteWorlds :
         \E w \in AllocationKeyRateWorlds : ProposeAllocationCall(risk, amounts, quotes, w)
NextAllocation == FirstAllocation
SpecAllocation == InitAllocation /\ [][NextAllocation]_vars

-----------------------------------------------------------------------------
(* Specification of the broadcast jobs: the scheduler fires the jobs one    *)
(* after another over the same users while the market-data sources answer   *)
(* in any way.                                                              *)

MaxUsers == 3
UserRisks == <<"conservative", "aggressive", "other">>
UserRow(n) == User(100 + n, UserRisks[(n % 3) + 1], 5 * ((n % 3) + 1), 20)
KnownUsers == [n \in 1..MaxUsers |-> UserRow(n)]
UsersTables == {SubSeq(KnownUsers, 1, n) : n \in 0..MaxUsers}
Days == {5, 10, 15}
IdeasOutcomes ==
    {[raised |-> Some("MarketDataError"), count |-> 0], [raised |-> Some("RequestException"), count |-> 0],
     [raised |-> Nil, count |-> 0], [raised |-> Nil, count |-> 1], [raised |-> Nil, count |-> 3]}
NudgeQuoteWorlds ==
    {[t \in PlanTickers |-> PricedQuote],
     [t \in PlanTickers |-> QuoteRaised("MarketDataError")],
     [t \in PlanTickers |-> UnpricedQuote]}

InitJobs == InitWith(FallbackSettings)
JobStartStep == \E name \in JobNames, users \in UsersTables, today \in Days : JobStart(name, users, today)
NudgeStepAny ==
    \E amounts \in LineAmounts, quotes \in NudgeQuoteWorlds :
        \E w \in AllocationKeyRateWorlds : NudgeStep(amounts, quotes, w)
IdeasStepAny == \E r \in IdeasOutcomes : IdeasStep(r)
NextJobs == JobStartStep \/ PingStep \/ NudgeStepAny \/ IdeasStepAny \/ Tick
SpecJobs == InitJobs /\ [][NextJobs]_vars

-----------------------------------------------------------------------------
(* Specification of generate_ideas: one call, for a few lists of portfolio   *)
(* assets, while the quote or the history of at most one ticker is odd, the  *)
(* snapshot and the auxiliary sources fail or not, and the key-rate sources  *)
(* and CoinGecko answer or not.                                              *)

IdeaAssets ==
    {<<PortfolioAsset("Sberbank", "dividends", 100, SBER, TQBR)>>,
     <<CashAsset(20), PortfolioAsset("Sberbank", "dividends", 40, SBER, TQBR),
       PortfolioAsset("Gazprom", "", 40, <<"g","a","z","p">>, TQBR)>>,
     <<PortfolioAsset("Sberbank", "dividends", 50, SBER, TQBR),
       PortfolioAsset("Sberbank", "growth", 50, SBER, TQBR)>>}
IdeaTickers == {SBER, <<"g","a","z","p">>} \cup {_extra_candidates[i].ticker : i \in 1..3}

IdeaQuote(price, reason) ==
    QuoteReturned(Quote(SBER, price, SUR, Some(0), "MOEX", Some(TQBR), Some("shares"), reason,
                        Some(10), Some(Units(4)), Nil, Nil, Nil))
QuoteOk == IdeaQuote(Some(Units(250)), Nil)
OddQuotes ==
    {QuoteRaised("MarketDataError"), QuoteRaised("RequestException"),
     IdeaQuote(Nil, Some("upstream_unavailable"))}

DatedRows ==
    <<[TRADEDATE |-> Str(<<"1","2">>), CLOSE |-> Num(250), VOLUME |-> Num(1000), VALUE |-> Num(2500)],
      [TRADEDATE |-> Str(<<"1","1">>), CLOSE |-> Str(<<"2","4","8",",","5">>), VOLUME |-> Null]>>
UndatedRows == <<[CLOSE |-> Num(250)], [TRADEDATE |-> Str(<<"n","/","a">>), CLOSE |-> Num(251)]>>
OddHistories == {<<>>, UndatedRows}

SnapshotOk ==
    [raised |-> Nil,
     data |-> [PE |-> Str(<<"7",",","5">>), DIVYIELD |-> Str(<<>>), UPDATEDATE |-> Str(<<"9">>)]]
AuxOk ==
    [commentary |-> Some([title |-> Str(<<"t">>), url |-> Str(<<"u">>)]),
     edgar |-> <<IdeaSource(<<"S","E","C"," ","1","0","-","Q">>, Some(5))>>,
     fred |-> [value |-> Some(Units(4)), sources |-> <<IdeaSource(<<"F","R","E","D">>, Some(30))>>]]
AuxUnavailable ==
    [commentary |-> Nil, edgar |-> <<>>, fred |-> [value |-> Nil, sources |-> <<>>]]
Surroundings ==
    {[snapshot |-> SnapshotOk, aux |-> AuxOk],
     [snapshot |-> [raised |-> Some("RequestException"), data |-> <<>>], aux |-> AuxUnavailable],
     [snapshot |-> [raised |-> Some("MarketDataError"), data |-> <<>>], aux |-> AuxOk],
     [snapshot |-> [raised |-> Some("KeyError"), data |-> <<>>], aux |-> AuxOk]}

TickerWorld(quote, history, around) ==
    [quote |-> quote, history |-> history, snapshot |-> around.snapshot, aux |-> around.aux]
OddTickerWorlds(around) ==
    {TickerWorld(q, DatedRows, around) : q \in OddQuotes}
    \cup {TickerWorld(QuoteOk, h, around) : h \in OddHistories}
TickerWorlds(around) ==
    {[t \in IdeaTickers |-> TickerWorld(QuoteOk, DatedRows, around)]}
    \cup {[t \in IdeaTickers |-> IF t = odd THEN w ELSE TickerWorld(QuoteOk, DatedRows, around)] :
            odd \in IdeaTickers, w \in OddTickerWorlds(around)}

CoinOk ==
    [market |-> [current_price |-> Num(60000), market_cap |-> Null, total_volume |-> Num(5)],
     sources |-> <<IdeaSource(<<"C","o","i","n","G","e","c","k","o"," ","B","i","t","c","o","i","n">>, Some(0))>>]
CoinUnavailable == [market |-> <<>>, sources |-> <<>>]

IdeaWorlds ==
    UNION {{[of |-> of, kr |-> kr, coin |-> coin] :
              of \in TickerWorlds(around), kr \in AllocationKeyRateWorlds,
              coin \in {CoinOk, CoinUnavailable}} : around \in Surroundings}

InitIdeas == InitWith(FallbackSettings)
FirstGenerateIdeas ==
    /\ last.op = "none"
    /\ \E assets \in IdeaAssets, w \in IdeaWorlds : GenerateIdeasCall(assets, w)
NextIdeas == FirstGenerateIdeas
SpecIdeas == InitIdeas /\ [][NextIdeas]_vars

-----------------------------------------------------------------------------
(* Specification of the FX funds: the first resolve_source or get_quote of a *)
(* process for FXIT or FXGD while the exchange lists the fund on the board   *)
(* MTQR, traded or not.                                                      *)

MTQR == <<"M","T","Q","R">>
Otc == <<"o","t","c">>
FxFundTickers == {<<"F","X","I","T">>, <<"f","x","g","d">>}
BoardsMtqrTraded ==
    ColumnarBlock(BoardColumns, << <<Str(TQTF), Num(0), Str(Shares), Str(Stock)>>,
                                   <<Str(MTQR), Num(1), Str(Shares), Str(Otc)>> >>)
BoardsMtqrIdle ==
    ColumnarBlock(BoardColumns, << <<Str(MTQR), Num(0), Str(Shares), Str(Otc)>> >>)
FxListings == {Response(200, SecPayload(b)) : b \in {BoardsMtqrTraded, BoardsMtqrIdle}}
FxUniverse ==
    [sec |-> FxListings, lat |-> {0}, sec2 |-> FxListings,
     md |-> {MdLive, MdNoRows}, eod |-> {EodClose, EodNoRows}, bin |-> {TransportError},
     td |-> {TdPrice, TdNoPrice, Response(500, Null), TransportError},
     fh |-> {FhPrice, FhNoPrice, TransportError}]

InitFx == InitWith(KeySettings)
FxResolve ==
    /\ last.op = "none"
    /\ \E ticker \in FxFundTickers, sec \in FxListings : ResolveSourceCall(ticker, sec)
FxGetQuote ==
    /\ last.op = "none"
    /\ \E ticker \in FxFundTickers, sec \in FxListings :
         \E w \in Worlds(ticker, FxUniverse, [NoAnswers EXCEPT !.sec = sec], 0) :
            GetQuoteCall(ticker, w)
NextFx == FxResolve \/ FxGetQuote
SpecFx == InitFx /\ [][NextFx]_vars

-----------------------------------------------------------------------------
(* Specification of rank_and_filter: one call on a list of ideas of a few    *)
(* kinds, under two values of IDEAS_TOPN, with and without a key rate.       *)

RankSettings ==
    [KEY_RATE_FALLBACK : {Nil, Some(1600)}, IDEAS_MIN_SOURCES : {2}, IDEAS_MAX_AGE_DAYS : {90},
     IDEAS_TOPN : {2, 5}, IDEAS_SCORE_THRESHOLD : {6000}]
RankDays == {200}

SecSource(date) == IdeaSource(<<"S","E","C"," ","1","0","-","Q">>, Some(date))
AnalyticsSource(date) == IdeaSource(<<"M","O","E","X"," ","a","n","a","l","i","t","i","k","a">>, Some(date))
QuoteSource(date) == IdeaSource(<<"M","O","E","X"," ","I","S","S"," ","k","o","t","i","r","o","v","k","i">>, Some(date))

StrongMetrics ==
    [EmptyMetrics EXCEPT !.price = Some(Units(205)), !.currency = Some(SUR),
                         !.dma20 = Some(Units(200)), !.dma50 = Some(Units(198)),
                         !.dma200 = Some(Units(190)), !.rsi14 = Some(Units(55)),
                         !.avg_volume = Some(Units(200000)), !.pe = Some(Units(10)),
                         !.dividend_yield = Some(Units(17))]
WeakMetrics ==
    [EmptyMetrics EXCEPT !.price = Some(Units(50)), !.currency = Some(SUR),
                         !.dma20 = Some(Units(55)), !.dma50 = Some(Units(60)),
                         !.dma200 = Some(Units(80)), !.rsi14 = Some(Units(80)),
                         !.avg_value = Some(Units(10000)), !.pe = Some(Units(50)),
                         !.dividend_yield = Some(0), !.key_rate = Some(Units(16))]
RankIdea(ticker, metrics, risks, sources) ==
    Idea(ticker, TQBR, "dividends", 180, metrics, risks, "low", sources, 0)

IdeaStrong ==
    RankIdea(<<"S","B","E","R">>, StrongMetrics, <<>>,
             <<SecSource(195), AnalyticsSource(199), QuoteSource(200)>>)
IdeaFair ==
    RankIdea(<<"G","A","Z","P">>, [StrongMetrics EXCEPT !.rsi14 = Some(Units(65)), !.pe = Some(Units(20))],
             <<"dnevnaya volatilnost vyshe 3%">>, <<QuoteSource(200), AnalyticsSource(150)>>)
IdeaStale ==
    RankIdea(<<"L","K","O","H">>, StrongMetrics, <<>>, <<SecSource(100), QuoteSource(109), AnalyticsSource(110)>>)
IdeaWeak == RankIdea(<<"X","Y","Z">>, WeakMetrics, <<>>, <<QuoteSource(200)>>)
IdeaFlagged == RankIdea(<<"A","B","C">>, WeakMetrics, <<InsufficientData>>, <<>>)
IdeaKinds == {IdeaStrong, IdeaFair, IdeaStale, IdeaWeak, IdeaFlagged}

MaxShortList == 3
ShortLists == UNION {[1..n -> IdeaKinds] : n \in 0..MaxShortList}
LongLists ==
    {<<IdeaStrong, IdeaWeak, IdeaFair, IdeaStrong, IdeaStale, IdeaFair, IdeaStrong, IdeaFair>>,
     <<IdeaWeak, IdeaFair, IdeaFlagged, IdeaStrong, IdeaWeak, IdeaStale>>,
     <<IdeaFair, IdeaStrong, IdeaFair, IdeaStrong, IdeaStale>>}
IdeaLists == ShortLists \cup LongLists

InitRank == InitWith(RankSettings)
FirstRankAndFilter ==
    /\ last.op = "none"
    /\ \E ideas \in IdeaLists, today \in RankDays :
         \E w \in AllocationKeyRateWorlds : RankAndFilterCall(ideas, today, w)
NextRank == FirstRankAndFilter
SpecRank == InitRank /\ [][NextRank]_vars

-----------------------------------------------------------------------------
(* Specification of the plan lines: a handler applies a quote to a line    *)
(* that is fresh or carries the figures of an earlier quote.               *)

ApplyAsset ==
    [label |-> "Sberbank", weight |-> 50, type |-> "stock", ticker |-> <<"S","B","E","R">>,
     board |-> Some(TQBR)]

ApplyAmounts == {0, 5, 2000, 12345}

\* The line as propose_allocation leaves it without a quote, and the line
\* after an earlier quote.
FreshLine(amount) == AllocationLine(ApplyAsset, amount)
UsedLine(amount) ==
    [FreshLine(amount) EXCEPT !.lots = Some(7), !.units = Some(70), !.invested = Some(86415),
                              !.leftover = Some(13585), !.note = Some(<<"prezhnyaya zametka">>)]
ApplyLines == {FreshLine(a) : a \in ApplyAmounts} \cup {UsedLine(a) : a \in ApplyAmounts}

\* Prices 123.45, 1.2345, 245.50, 0 and -1, or none; lot sizes 1, 10, 0 or none.
ApplyPrices == {Nil, Some(1234500), Some(12345), Some(2455000), Some(0), Some(0 - 10000)}
ApplyLots == {Nil, Some(0), Some(1), Some(10)}

\* The reason and context pairs of the quotes get_quote and
\* _fallback_quote_from_idea build: a context comes only with a reason
\* (providers.py lines 508-557), and a reason may be a code without a text.
ApplyReasons ==
    {<<Nil, Nil>>, <<Some(""), Nil>>, <<Some("stale_price"), Nil>>,
     <<Some("no_reason_text"), Nil>>,
     <<Some("upstream_unavailable"), Some("no_active_trading_on_moex")>>,
     <<Some("missing_api_key"), Some("missing_api_key")>>}

ApplyQuoteOf(price, lot, rc) ==
    Quote(<<"S","B","E","R">>, price, SUR, Nil, "MOEX", Some(TQBR), Nil, rc[1], lot,
          Nil, Nil, Nil, rc[2])
ApplyQuotes ==
    {ApplyQuoteOf(price, lot, rc) : price \in ApplyPrices, lot \in ApplyLots, rc \in ApplyReasons}

InitApply == InitWith(KeySettings)
FirstApplyQuote ==
    /\ last.op = "none"
    /\ \E line \in ApplyLines, quote \in ApplyQuotes : ApplyQuoteCall(line, quote)
NextApply == FirstApplyQuote
SpecApply == InitApply /\ [][NextApply]_vars

-----------------------------------------------------------------------------
(* Specification of the live price: the first get_quote of a process for a *)
(* share traded on TQBR, whatever the price fields of its market-data row. *)

\* The values each price field may carry: absent, zero, negative (a fall
\* against the previous price), text, or a positive number of its own.
PriceFieldValues ==
    [LAST |-> {Null, Num(0), Num(0 - 2), Num(101)},
     LCURRENTPRICE |-> {Null, Str(<<"0">>), Num(102)},
     MARKETPRICE3 |-> {Null, Num(103)},
     MARKETPRICE |-> {Null, Str(<<"n","/","a">>), Str(<<"1","0","4">>)},
     LASTTOPREVPRICE |-> {Null, Num(0 - 2), Num(105)},
     CLOSE |-> {Null, Num(0), Num(106)}]
PriceRows ==
    { [BOARDID |-> Str(TQBR), LAST |-> a, LCURRENTPRICE |-> b, MARKETPRICE3 |-> c,
       MARKETPRICE |-> d, LASTTOPREVPRICE |-> e, CLOSE |-> f] :
        a \in PriceFieldValues.LAST, b \in PriceFieldValues.LCURRENTPRICE,
        c \in PriceFieldValues.MARKETPRICE3, d \in PriceFieldValues.MARKETPRICE,
        e \in PriceFieldValues.LASTTOPREVPRICE, f \in PriceFieldValues.CLOSE }
MdOfRow(row) == Response(200, [marketdata |-> ListBlock(<<row>>)])
PriceUniverse ==
    [sec |-> {Response(200, SecPayload(BoardsTraded))}, lat |-> {0},
     sec2 |-> {Response(200, SecPayload(BoardsTraded))},
     md |-> {MdOfRow(row) : row \in PriceRows}, eod |-> {EodClose, EodNoRows},
     bin |-> {NoAnswer}, td |-> {NoAnswer}, fh |-> {NoAnswer}]

InitPrice == InitWith({NoKeys})
FirstPriceQuote ==
    /\ last.op = "none"
    /\ \E w \in Worlds(SBER, PriceUniverse, NoAnswers, 0) : GetQuoteCall(SBER, w)
NextPrice == FirstPriceQuote
SpecPrice == InitPrice /\ [][NextPrice]_vars

-----------------------------------------------------------------------------
(* Specification of concurrent quote callers: a scheduled job and a user   *)
(* interaction each run get_quote once, in any interleaving, while time    *)
(* passes; both upstream keys are configured.                              *)

\* The job asks for one ticker, the user for either.
RaceTickers ==
    [job |-> {<<"s","b","e","r">>}, user |-> {<<"s","b","e","r">>, BTCUSDT}]
RaceSecAnswers == {Response(200, SecPayload(BoardsTraded)), TransportError}
BinOtherPrice == Response(200, [symbol |-> Str(BTCUSDT), price |-> Str(<<"6","5","0","0","1">>)])

\* What the upstreams of a route may answer to one caller.
MoexRaceWorlds ==
    {[NoAnswers EXCEPT !.sec2 = Response(200, SecPayload(BoardsTraded)), !.md = m[1], !.eod = m[2]] :
        m \in {<<MdLive, NoAnswer>>, <<MdOtherBoardFirst, NoAnswer>>,
               <<MdTimestampOnly, EodNoRows>>}}
BinanceRaceWorlds ==
    {[NoAnswers EXCEPT !.bin = a] : a \in {BinPrice, BinOtherPrice, TransportError}}
AggregatorRaceWorlds ==
    {[NoAnswers EXCEPT !.td = a[1], !.fh = a[2]] :
        a \in {<<TdPrice, NoAnswer>>, <<TdNoPrice, FhNoPrice>>}}
RaceWorlds(route) ==
    CASE route.name = "MOEX" -> MoexRaceWorlds
      [] route.name = "BINANCE" -> BinanceRaceWorlds
      [] route.name = "AGGREGATOR" -> AggregatorRaceWorlds
      [] OTHER -> {NoAnswers}

InitRace ==
    /\ clock = 0
    /\ callers = [c \in CallerIds |-> IdleCaller]
    /\ db = NoDatabase
    /\ settings = BothKeys
    /\ QUOTE_CACHE = EmptyCache
    /\ SECURITY_CACHE = EmptyCache
    /\ KEY_RATE_CACHE = Nil
    /\ HISTORY_CACHE = EmptyCache
    /\ INDEX_CACHE = EmptyCache
    /\ http = NoHttpCall
    /\ job = NoJob
    /\ UNIVERSE_CACHE = Nil
    /\ universe_file = Nil
    /\ last = NoCall
RaceRoute ==
    \E c \in CallerIds : \E ticker \in RaceTickers[c] :
        \E sec \in ResolverWorlds(ticker, RaceSecAnswers) : QuoteCallerRoute(c, ticker, sec)
RaceLookup == \E c \in CallerIds : QuoteCallerLookup(c)
RaceFetch ==
    \E c \in CallerIds :
        /\ callers[c].pc = "missed"
        /\ \E w \in RaceWorlds(Val(callers[c].route)) : QuoteCallerFetch(c, w)
RaceReturn == \E c \in CallerIds : QuoteCallerReturn(c)
NextRace == RaceRoute \/ RaceLookup \/ RaceFetch \/ RaceReturn \/ Tick
SpecRace == InitRace /\ [][NextRace]_vars

-----------------------------------------------------------------------------
(* Specification of degraded quotes: callers repeat get_quote for a share  *)
(* and for a fund of the aggregator while time passes, with and without    *)
(* the aggregator keys.                                                    *)

DegradedTickers == {SBER, <<"F","X","I","T">>}
DegradedUniverse ==
    [sec |-> {Response(200, SecPayload(BoardsTraded))}, lat |-> {0},
     sec2 |-> {Response(200, SecPayload(BoardsTraded))},
     md |-> {MdLive, MdTimestampOnly}, eod |-> {EodNoRows},
     bin |-> {NoAnswer}, td |-> {TdPrice, TdNoPrice}, fh |-> {FhPrice, FhNoPrice}]

InitDegraded == InitWith({NoKeys, BothKeys})
GetQuoteAgainStep ==
    \E ticker \in DegradedTickers :
        \E w \in Worlds(ticker, DegradedUniverse, NoAnswers, 0) : GetQuoteAgain(ticker, w)
NextDegraded == GetQuoteAgainStep \/ Tick
SpecDegraded == InitDegraded /\ [][NextDegraded]_vars

-----------------------------------------------------------------------------
(* Specification of long histories: the first get_security_history of a    *)
(* process for windows around the page size, on boards with one and two    *)
(* candidates.                                                             *)

LongHistoryBoards == {<<"T","Q","B","R">>, <<"t","q","t","f">>}
LongHistoryDays == {0, 100, 101, 250}
LongHistoryAnswers == {PageFullList, PageFullColumnar, PageShort, PageEmpty, TransportError}

InitLongHistory == InitWith({NoKeys})
FirstLongHistory ==
    /\ last.op = "none"
    /\ \E board \in LongHistoryBoards, days \in LongHistoryDays :
         \E w \in HistoryWorlds(SBER, board, days, LongHistoryAnswers, <<>>) :
            GetHistoryCall(SBER, board, days, w, 0)
NextLongHistory == FirstLongHistory
SpecLongHistory == InitLongHistory /\ [][NextLongHistory]_vars

-----------------------------------------------------------------------------
(* is_tradable callers side by side with rewrites of the universe file *)

\* bonds: [OFZ]
DocBondsOnly == YamlMapping(<< Section(<<"b","o","n","d","s">>, <<Some(<<"O","F","Z">>)>>) >>)
\* The documents the file holds one after another: the i-th rewrite leaves
\* the i-th of them, so that a modification time names one document.
UniverseVersions == <<DocSections, DocMixed, YamlOther, DocBondsOnly>>
DocAt(mtime) == UniverseVersions[((mtime - 1) % Len(UniverseVersions)) + 1]
UniverseRaceSymbols == {SBERText, FXITText}
UniverseIdleCaller == [pc |-> "idle"]

InitUniverseRace ==
    /\ clock = 0
    /\ callers = [c \in CallerIds |-> UniverseIdleCaller]
    /\ db = NoDatabase
    /\ settings = NoKeys
    /\ QUOTE_CACHE = EmptyCache
    /\ SECURITY_CACHE = EmptyCache
    /\ KEY_RATE_CACHE = Nil
    /\ HISTORY_CACHE = EmptyCache
    /\ INDEX_CACHE = EmptyCache
    /\ http = NoHttpCall
    /\ job = NoJob
    /\ UNIVERSE_CACHE = Nil
    /\ universe_file \in {Nil, Some([mtime |-> 1, data |-> DocAt(1)])}
    /\ last = NoCall
UniverseRaceStat ==
    \E c \in CallerIds, symbol \in UniverseRaceSymbols :
        TradableCallerStat(c, symbol, <<"s","t","o","c","k">>)
UniverseRaceLocked == \E c \in CallerIds : TradableCallerLocked(c)
UniverseRaceWrite ==
    WriteUniverse(DocAt(IF universe_file = Nil THEN 1 ELSE Val(universe_file).mtime + 1))
NextUniverseRace == UniverseRaceStat \/ UniverseRaceLocked \/ UniverseRaceWrite
SpecUniverseRace == InitUniverseRace /\ [][NextUniverseRace]_vars

-----------------------------------------------------------------------------
(* Specification of the amounts of propose_allocation: one call with an     *)
(* amount that callers pass (greater than zero, in hundredths)              *)

\* 0.01, 0.49, 0.50, 1.00, 7.50, 10.33, 333.33, 1999.50, 45000.00
ContributionAmounts == {1, 49, 50, 100, 750, 1033, 33333, 199950, 4500000}
\* RUONIA of 13.5 percent, or none and a key rate of 16 or 7.5 percent or none.
AmountKeyRateWorlds ==
    KeyRateWorlds({RuFraction, TransportError}, {CbrSixteen, CbrComma, TransportError})
AmountQuoteWorlds ==
    {[t \in PlanTickers |-> PricedQuote], [t \in PlanTickers |-> UnpricedQuote]}

InitAmounts == InitWith(FallbackSettings)
FirstAmount ==
    /\ last.op = "none"
    /\ \E amount \in ContributionAmounts, risk \in Risks, quotes \in AmountQuoteWorlds :
         \E w \in AmountKeyRateWorlds, rounding \in Roundings :
            ProposeAmountCall(amount, risk, quotes, w, rounding)
NextAmounts == FirstAmount
SpecAmounts == InitAmounts /\ [][NextAmounts]_vars

-----------------------------------------------------------------------------
(* Specification of the balance adjustments: users 1 and 2 are known, 3 is  *)
(* not; user 1 starts with manual contributions.                             *)

AdjustingUsers == {1, 2, 3}
\* 0, 0.005, 50.004, 100.00, 100.005
DesiredTotals == {0, 5, 50004, 100000, 100005}
\* Nothing, 100.00, 0.001, or 100.005 and 0.20 contributed by user 1.
ManualContributions ==
    {<<>>, <<Contribution(1, 100000, "manual")>>, <<Contribution(1, 1, "manual")>>,
     <<Contribution(1, 100005, "manual"), Contribution(1, 200, "manual")>>}

InitBalance ==
    /\ clock = 0
    /\ callers = NoCallers
    /\ db \in {[users |-> {1, 2}, contributions |-> c] : c \in ManualContributions}
    /\ settings = NoKeys
    /\ QUOTE_CACHE = EmptyCache
    /\ SECURITY_CACHE = EmptyCache
    /\ KEY_RATE_CACHE = Nil
    /\ HISTORY_CACHE = EmptyCache
    /\ INDEX_CACHE = EmptyCache
    /\ http = NoHttpCall
    /\ job = NoJob
    /\ UNIVERSE_CACHE = Nil
    /\ universe_file = Nil
    /\ last = NoCall
BalanceAdjustmentStep ==
    \E user_id \in AdjustingUsers, desired_total \in DesiredTotals, tie \in Ties :
        BalanceAdjustmentCall(user_id, desired_total, tie)
NextBalance == BalanceAdjustmentStep
SpecBalance == InitBalance /\ [][NextBalance]_vars

-----------------------------------------------------------------------------
(* Properties of the resolver (checked under SpecResolve) *)

LastRoute == Val(last.route)

\* The table entry each raw override spelling stands for, and the canonical
\* symbol of each raw crypto spelling.
OverrideEntry ==
    (<<"f","x","i","t">> :> <<"F","X","I","T">>)
 @@ (<<"F","X","W","O"," ">> :> <<"F","X","W","O">>)
 @@ (<<"\t","F","x","G","d">> :> <<"F","X","G","D">>)
 @@ (<<"F","X","R","B">> :> <<"F","X","R","B">>)
 @@ (<<" ","y","n","d","x","\n">> :> <<"Y","N","D","X">>)
 @@ (<<"Y","N","D","X">> :> <<"Y","N","D","X">>)
CryptoSymbol ==
    (<<"B","T","C","U","S","D","T">> :> <<"B","T","C","U","S","D","T">>)
 @@ (<<" ","e","t","h","b","t","c">> :> <<"E","T","H","B","T","C">>)
 @@ (<<"E","T","H","B","U","S","D">> :> <<"E","T","H","B","U","S","D">>)

C3_LettersThenSuffix ==
    (last.op = "resolve_source" /\ last.ticker \in CryptoTickers \cup NearCryptoTickers) =>
        /\ LastRoute.name = "BINANCE"
        /\ last.log = <<>>

\* C3, amended: a ticker that normalises to 3..10 letters followed by USDT,
\* BTC or BUSD gets the BINANCE route for that symbol (currency USDT for a
\* USDT pair, USD otherwise) without any network call; with fewer than 3 or
\* more than 10 letters before the suffix it is no crypto pair and the
\* resolver asks the exchange.
C3_CryptoPairRoute ==
    /\ (last.op = "resolve_source" /\ last.ticker \in CryptoTickers) =>
          /\ last.raised = Nil
          /\ last.log = <<>>
          /\ LastRoute = SourceRoute("BINANCE", CryptoSymbol[last.ticker], Nil, Nil, Nil, Nil,
                                     Some(IF CryptoSymbol[last.ticker] = <<"B","T","C","U","S","D","T">>
                                          THEN USDT ELSE USD))
    /\ (last.op = "resolve_source" /\ last.ticker \in NearCryptoTickers) =>
          /\ LastRoute.name # "BINANCE"
          /\ Asked(last.log, "moex_securities")

\* C3 happens: a lower-case pair with leading whitespace is routed to Binance
\* after the security cache has been filled by other lookups.
C3_Witness ==
    /\ last.op = "resolve_source"
    /\ last.ticker = <<" ","e","t","h","b","t","c">>
    /\ LastRoute.name = "BINANCE"
    /\ LastRoute.symbol = <<"E","T","H","B","T","C">>
    /\ SECURITY_CACHE # EmptyCache

\* C4: when resolve_source asks the exchange and gets no traded board, it
\* returns an AGGREGATOR route (symbol <ticker>.MOEX) whose reason is
\* unknown_ticker on a 404, moex_unavailable on a transport failure and
\* no_active_trading_on_moex when boards are listed but none is traded.
C4_FallbackReason ==
    (last.op = "resolve_source" /\ Asked(last.log, "moex_securities")) =>
        LET expected(reason) ==
                /\ last.raised = Nil
                /\ LastRoute = SourceRoute("AGGREGATOR", SBER \o DotMOEX, Nil, Nil, Nil,
                                           Some(reason), Some(SUR))
        IN  /\ (last.ticker \in ListedTickers /\ last.w.sec = Response(404, Null))
                  => expected("unknown_ticker")
            /\ (last.ticker \in ListedTickers /\ last.w.sec = TransportError)
                  => expected("moex_unavailable")
            /\ (last.ticker \in ListedTickers
                    /\ last.w.sec = Response(200, SecPayload(BoardsHalted)))
                  => expected("no_active_trading_on_moex")
            /\ last.w.sec \in {Response(404, Null), TransportError}
                  => /\ LastRoute.name = "AGGREGATOR"
                     /\ LastRoute.reason =
                            Some(IF last.w.sec = TransportError THEN "moex_unavailable"
                                 ELSE "unknown_ticker")

\* C4 happens: the exchange lists two boards, neither traded.
C4_Witness ==
    /\ last.op = "resolve_source"
    /\ Asked(last.log, "moex_securities")
    /\ last.w.sec = Response(200, SecPayload(BoardsHalted))
    /\ LastRoute.name = "AGGREGATOR"
    /\ LastRoute.reason = Some("no_active_trading_on_moex")

\* The first flagged row of each listing that has one: board (upper-cased),
\* market and engine (lower-cased, "shares" and "stock" when absent).
FirstTradedBoard ==
    (BoardsTraded :> <<Some(TQBR), Shares, Stock>>)
 @@ (BoardsSecondTraded :> <<Some(TQTF), Shares, Stock>>)
 @@ (BoardsBothTraded :> <<Some(TQBR), Shares, Stock>>)
 @@ (BoardsNoCode :> <<Nil, Shares, Stock>>)

\* C5: when the listing has at least one row with the traded flag set,
\* resolve_source returns a MOEX route without a reason whose board, market
\* and engine are those of the first such row in listing order; unflagged
\* rows before it are skipped and later flagged rows do not matter.
C5_FirstTradedBoard ==
    (/\ last.op = "resolve_source"
     /\ Asked(last.log, "moex_securities")
     /\ \E b \in DOMAIN FirstTradedBoard : last.w.sec = Response(200, SecPayload(b))) =>
        LET row == FirstTradedBoard[last.w.sec.json.boards]
        IN  /\ last.raised = Nil
            /\ LastRoute = SourceRoute("MOEX", SBER, row[1], Some(row[2]), Some(row[3]),
                                       Nil, Some(SUR))

\* C5 happens: the second row of three is the first traded one.
C5_Witness ==
    /\ last.op = "resolve_source"
    /\ Asked(last.log, "moex_securities")
    /\ last.w.sec = Response(200, SecPayload(BoardsSecondTraded))
    /\ LastRoute.name = "MOEX"
    /\ LastRoute.board = Some(TQTF)

-----------------------------------------------------------------------------
(* Properties of the fetchers (checked under SpecFetch) *)

LastQuote == Val(last.quote)

\* Market data in which the board has no live price.
NoLivePrice == {MdTimestampOnly, MdZeroPrice, MdNoRows}
\* The close each successful history answer carries in its last row.
KnownClose == (EodClose :> 248) @@ (EodLegalClose :> 247)
\* History lookups that fail: no rows, no close in the row, not found,
\* transport failure, HTTP error status.
EodFailures ==
    {EodNoRows, EodRowWithoutClose, Response(404, Null), TransportError,
     Response(500, Null), Response(503, Null)}

\* C6: when the market data of the resolved board has no live price and the
\* end-of-day lookup succeeds with a close c, get_quote returns a Quote from
\* MOEX with price c and reason eod_close_fallback.
C6_EodCloseFallback ==
    (/\ last.op = "get_quote"
     /\ Asked(last.log, "moex_marketdata")
     /\ last.w.md \in NoLivePrice
     /\ last.w.eod \in DOMAIN KnownClose) =>
        /\ last.raised = Nil
        /\ Asked(last.log, "moex_history")
        /\ LastQuote.price = Some(KnownClose[last.w.eod])
        /\ LastQuote.reason = Some("eod_close_fallback")
        /\ LastQuote.source = "MOEX"

\* C6 happens: a row with a timestamp but no price, and a history whose last
\* row has its close in LEGALCLOSEPR.
C6_Witness ==
    /\ last.op = "get_quote"
    /\ last.w.md = MdTimestampOnly
    /\ last.w.eod = EodLegalClose
    /\ Asked(last.log, "moex_history")
    /\ LastQuote.price = Some(247)
    /\ LastQuote.reason = Some("eod_close_fallback")

\* C7: when there is no live price and the end-of-day lookup fails as well
\* (no rows, not found, transport failure or an HTTP error status), the
\* fetcher returns a Quote with no price and reason no_trades_no_history and
\* does not raise.
C7_NoTradesNoHistory ==
    (/\ last.op = "get_quote"
     /\ Asked(last.log, "moex_marketdata")
     /\ last.w.md \in NoLivePrice
     /\ last.w.eod \in EodFailures) =>
        /\ last.raised = Nil
        /\ LastQuote.price = Nil
        /\ LastQuote.reason = Some("no_trades_no_history")

\* `No API key configured`: unset or empty.
Unconfigured(key) == key \in {Nil, Some("")}
Degraded(reason) ==
    /\ last.raised = Nil
    /\ LastQuote.price = Nil
    /\ LastQuote.source = "TWELVEDATA"
    /\ LastQuote.reason = Some(reason)
    /\ LastQuote.context = LastRoute.reason

\* C8 as stated: with no API key for either aggregator, get_quote on an
\* aggregator-routed ticker makes no network call at all and returns the
\* missing_api_key quote.
C8_NoNetworkCall ==
    (/\ last.op = "get_quote"
     /\ LastRoute.name = "AGGREGATOR"
     /\ Unconfigured(settings.TWELVEDATA_API_KEY)
     /\ Unconfigured(settings.FINNHUB_API_KEY)) =>
        /\ last.log = <<>>
        /\ Degraded("missing_api_key")

\* C8, amended: with no API key for either aggregator, get_quote on an
\* aggregator-routed ticker sends no request to either aggregator (for an
\* override ticker no request at all; otherwise only the securities lookup
\* of the resolver) and returns a Quote with no price, source TWELVEDATA,
\* reason missing_api_key and the route reason as context.
C8_NoAggregatorCall ==
    (/\ last.op = "get_quote"
     /\ LastRoute.name = "AGGREGATOR"
     /\ Unconfigured(settings.TWELVEDATA_API_KEY)
     /\ Unconfigured(settings.FINNHUB_API_KEY)) =>
        /\ \A i \in 1..Len(last.log) : last.log[i].ep = "moex_securities"
        /\ Len(last.log) <= 1
        /\ last.ticker \in DOMAIN OverrideEntry => last.log = <<>>
        /\ Degraded("missing_api_key")
        /\ LastRoute.reason # Nil

\* C8 happens: YNDX without keys.
C8_Witness ==
    /\ last.op = "get_quote"
    /\ settings = NoKeys
    /\ last.ticker = <<"Y","N","D","X">>
    /\ last.log = <<>>
    /\ LastQuote.reason = Some("missing_api_key")
    /\ LastQuote.context = Some("moex_delisting_announced")

\* What Twelve Data answers on a credential failure.
CredentialFailures ==
    {Response(401, Null), Response(403, Null), TdErrorCode401, TdErrorCode403Text,
     TdErrorApiKeyMessage, TdErrorApikeyParameter, TdErrorUnauthorized}

\* C9: when Twelve Data signals a credential failure (HTTP 401/403, or an
\* error payload with code 401/403 or a message that mentions the API key or
\* `unauthorized`), get_quote returns a Quote with no price, source
\* TWELVEDATA, reason missing_api_key and the route reason as context, and
\* Finnhub is not called, whether or not its key is configured.
C9_CredentialFailure ==
    (/\ last.op = "get_quote"
     /\ Asked(last.log, "twelvedata")
     /\ last.w.td \in CredentialFailures) =>
        /\ Degraded("missing_api_key")
        /\ ~Asked(last.log, "finnhub")

\* C9 happens: an error payload that names the API key in mixed case, the
\* Finnhub key being configured.
C9_Witness ==
    /\ last.op = "get_quote"
    /\ settings = BothKeys
    /\ Asked(last.log, "twelvedata")
    /\ last.w.td = TdErrorApiKeyMessage
    /\ LastQuote.reason = Some("missing_api_key")
    /\ LastQuote.context = Some("delisted_from_moex")

\* What Twelve Data answers on a failure that is no credential failure, or
\* without a usable price.
NonAuthFailures ==
    {TdErrorCredits, Response(500, Null), TransportError, TdNoPrice}

\* C10: when both keys are configured and Twelve Data answers with a non-auth
\* failure (a non-auth error payload, a server-error status or a transport
\* failure) or without a usable price, the fetcher then asks Finnhub.
C10_SecondaryQueried ==
    (/\ last.op = "get_quote"
     /\ ~Unconfigured(settings.TWELVEDATA_API_KEY)
     /\ ~Unconfigured(settings.FINNHUB_API_KEY)
     /\ Asked(last.log, "twelvedata")
     /\ last.w.td \in NonAuthFailures) =>
        Asked(last.log, "finnhub")

\* Twelve Data answers that are no credential failure, raise nothing and
\* carry no usable price.
TdNoPriceAnswers == {TdErrorCredits, TdNoPrice}
BothConfigured ==
    /\ ~Unconfigured(settings.TWELVEDATA_API_KEY)
    /\ ~Unconfigured(settings.FINNHUB_API_KEY)

\* C11 as stated: when both aggregators are configured and both fail to
\* produce a price (Finnhub by an answer without a price, by an HTTP error
\* status or by a transport failure), get_quote returns a Quote with no price
\* and reason upstream_unavailable, the route reason in context, and does not
\* raise.
C11_BothFailNeverRaises ==
    (/\ last.op = "get_quote"
     /\ BothConfigured
     /\ Asked(last.log, "twelvedata")
     /\ last.w.td \in TdNoPriceAnswers
     /\ last.w.fh \in {FhNoPrice, Response(429, Null), TransportError}) =>
        Degraded("upstream_unavailable")

\* C11, amended: when both aggregators are configured and Twelve Data answers
\* without a usable price (a non-auth error payload or a payload without
\* price and close), Finnhub is asked; if Finnhub answers 2xx without a
\* usable price, get_quote returns a Quote with no price, source TWELVEDATA,
\* reason upstream_unavailable and the route reason in context; if Finnhub
\* answers with an HTTP error status or the request fails, the
\* RequestException escapes get_quote.
C11_UpstreamUnavailable ==
    (/\ last.op = "get_quote"
     /\ BothConfigured
     /\ Asked(last.log, "twelvedata")
     /\ last.w.td \in TdNoPriceAnswers) =>
        /\ Asked(last.log, "finnhub")
        /\ last.w.fh = FhNoPrice => Degraded("upstream_unavailable")
        /\ last.w.fh \in {Response(429, Null), TransportError}
              => last.raised = Some("RequestException")
        /\ last.w.fh = FhPrice =>
              /\ last.raised = Nil
              /\ LastQuote.price = Some(55)
              /\ LastQuote.source = "FINNHUB"

\* C11 happens: Twelve Data is out of credits and Finnhub has no price for a
\* ticker the exchange does not know.
C11_Witness ==
    /\ last.op = "get_quote"
    /\ settings = BothKeys
    /\ last.ticker = SBER
    /\ last.w.td = TdErrorCredits
    /\ last.w.fh = FhNoPrice
    /\ Asked(last.log, "finnhub")
    /\ LastQuote.reason = Some("upstream_unavailable")
    /\ LastQuote.context = Some("unknown_ticker")

\* C12 as stated: every Quote returned on an aggregator route, priced or
\* not, carries the route reason in context and not in reason.
C12_RouteReasonInContext ==
    (/\ last.op = "get_quote"
     /\ LastRoute.name = "AGGREGATOR"
     /\ last.raised = Nil) =>
        /\ LastQuote.context = LastRoute.reason
        /\ LastQuote.reason # LastRoute.reason

\* C12, amended: every aggregator route has a reason.  A Quote without a
\* price returned on it carries the route reason in context and its own
\* degradation code (missing_api_key or upstream_unavailable) in reason; a
\* priced Quote carries the route reason in reason and has no context.
C12_RouteReasonPlacement ==
    (/\ last.op = "get_quote"
     /\ LastRoute.name = "AGGREGATOR"
     /\ last.raised = Nil) =>
        /\ LastRoute.reason # Nil
        /\ LastQuote.price = Nil =>
              /\ LastQuote.context = LastRoute.reason
              /\ LastQuote.reason \in {Some("missing_api_key"), Some("upstream_unavailable")}
        /\ LastQuote.price # Nil =>
              /\ LastQuote.reason = LastRoute.reason
              /\ LastQuote.context = Nil
              /\ LastQuote.source \in {"TWELVEDATA", "FINNHUB"}

\* C12 happens: a priced Twelve Data quote for a delisted fund.
C12_Witness ==
    /\ last.op = "get_quote"
    /\ LastRoute.name = "AGGREGATOR"
    /\ last.w.td = TdPrice
    /\ last.raised = Nil
    /\ LastQuote.price = Some(101)
    /\ LastQuote.reason = Some("delisted_from_moex")
    /\ LastQuote.context = Nil

\* C13: every exception that escapes get_quote is a RequestException or, on
\* a BINANCE route only, a MarketDataError for an answer without a price;
\* every other call returns a Quote, and a Quote without a price (ticker not
\* known to the exchange, no traded board, no trades, missing credentials)
\* has a reason.
C13_NeverRaisesForNoData ==
    last.op = "get_quote" =>
        /\ last.raised # Nil =>
              \/ last.raised = Some("RequestException")
              \/ /\ last.raised = Some("MarketDataError")
                 /\ LastRoute.name = "BINANCE"
                 /\ last.w.bin = BinNoPrice
        /\ (last.raised = Nil /\ LastQuote.price = Nil) => LastQuote.reason # Nil

-----------------------------------------------------------------------------
(* Properties of the quote cache (checked under Spec) *)

QuoteEndpoints == {"moex_marketdata", "moex_history", "binance", "twelvedata", "finnhub"}

-----------------------------------------------------------------------------
(* Properties of the key rate (checked under SpecKeyRate) *)

\* The raw value each successful answer carries, in units of 10^-4.
RawKeyRate ==
    (RuPercentText :> 135000) @@ (RuFraction :> 1350) @@ (RuThreshold :> 15000)
 @@ (RuAboveThreshold :> 15100) @@ (RuWholePercent :> 160000)
 @@ (CbrSixteen :> 160000) @@ (CbrComma :> 75000) @@ (CbrSnakeCase :> 750)
\* The answer that gave the rate of the last call.
LastSourceAnswer == IF last.source = "ruonia" THEN last.ru ELSE last.cbr
\* Answers of a source that give no rate.
RuFailures == RuAnswers \ DOMAIN RawKeyRate
CbrFailures == CbrAnswers \ DOMAIN RawKeyRate

\* C14: for every raw value v obtained from either source, get_key_rate
\* returns v / 100 when v > 1.5 and v itself when v <= 1.5 (13.50 gives
\* 0.135, 0.135 stays 0.135, 1.5 stays 1.5).
C14_PercentNormalised ==
    (last.op = "get_key_rate" /\ last.source \in {"ruonia", "cbr"}) =>
        /\ LastSourceAnswer \in DOMAIN RawKeyRate
        /\ last.raised = Nil
        /\ last.rate = Some(IF RawKeyRate[LastSourceAnswer] > 15000
                            THEN RawKeyRate[LastSourceAnswer] \div 100
                            ELSE RawKeyRate[LastSourceAnswer])
        /\ last.ru = RuPercentText => last.rate = Some(1350)
        /\ last.ru = RuFraction => last.rate = Some(1350)

\* C14 happens: the text 13.50 has been turned into 0.135 and, in another
\* call, a raw value of exactly 1.5 has been kept.
C14_Witness ==
    /\ last.op = "get_key_rate"
    /\ last.source = "ruonia"
    /\ last.ru = RuThreshold
    /\ last.rate = Some(15000)
    /\ last.cached # Nil
    /\ Val(last.cached)[2] = 1350

\* C15: a call that is not served from the cache asks RUONIA first and
\* stops there when it gives a rate; only when RUONIA failed or was empty it
\* asks the central bank, one request each; when neither gives a rate it
\* returns the configured fallback; it raises MarketDataError exactly when
\* both sources fail, no fallback is configured and nothing is cached.  A
\* RUONIA 404 followed by KeyRate "16" gives 0.16 with two requests, and two
\* server errors with the fallback 0.123 give 0.123.
C15_SourceOrder ==
    (last.op = "get_key_rate" /\ ~last.hit) =>
        /\ Len(last.log) \in {1, 2}
        /\ last.log[1] = Req("ruonia", last.ru)
        /\ last.ru \in DOMAIN RawKeyRate =>
              /\ Len(last.log) = 1
              /\ last.source = "ruonia"
        /\ last.ru \in RuFailures =>
              /\ Len(last.log) = 2
              /\ last.log[2] = Req("cbr", last.cbr)
              /\ last.cbr \in DOMAIN RawKeyRate => last.source = "cbr"
              /\ (last.cbr \in CbrFailures /\ settings.KEY_RATE_FALLBACK # Nil) =>
                    /\ last.raised = Nil
                    /\ last.rate = settings.KEY_RATE_FALLBACK
        /\ last.raised # Nil <=>
              /\ last.ru \in RuFailures
              /\ last.cbr \in CbrFailures
              /\ settings.KEY_RATE_FALLBACK = Nil
              /\ last.cached = Nil
        /\ last.raised # Nil => last.raised = Some("MarketDataError")
        /\ (last.ru = Response(404, Null) /\ last.cbr = CbrSixteen) =>
              /\ last.rate = Some(1600)
              /\ Len(last.log) = 2
        /\ (/\ last.ru = Response(500, Null) /\ last.cbr = Response(500, Null)
            /\ settings.KEY_RATE_FALLBACK = Some(1230)) =>
              /\ last.raised = Nil
              /\ last.rate = Some(1230)

\* C15 happens: RUONIA answers 404 and the central bank answers "16".
C15_Witness ==
    /\ last.op = "get_key_rate"
    /\ last.ru = Response(404, Null)
    /\ last.cbr = CbrSixteen
    /\ Len(last.log) = 2
    /\ last.rate = Some(1600)

\* A call that finds an expired value fetched from a source in the cache
\* while both sources fail.
StaleAfterSuccess ==
    /\ last.op = "get_key_rate"
    /\ last.cached # Nil
    /\ last.cached_from = "upstream"
    /\ last.now - Val(last.cached)[1] >= KEY_RATE_TTL
    /\ last.ru \in RuFailures
    /\ last.cbr \in CbrFailures

\* C16 as stated: after a success with the value r, a call made after the
\* cache has expired in which both fetches fail returns the stale r.
C16_StaleValueReturned ==
    StaleAfterSuccess =>
        /\ last.raised = Nil
        /\ last.rate = Some(Val(last.cached)[2])

\* C16, amended: in such a call get_key_rate never raises.  Without a
\* configured fallback it returns the stale r and leaves the cache as it is
\* (the entry stays expired, so the next call asks the sources again); with
\* a configured fallback f it returns f, not r, and stores f in the cache
\* with the time of the call.
C16_StaleOnlyWithoutFallback ==
    StaleAfterSuccess =>
        /\ last.raised = Nil
        /\ Len(last.log) = 2
        /\ settings.KEY_RATE_FALLBACK = Nil =>
              /\ last.rate = Some(Val(last.cached)[2])
              /\ KEY_RATE_CACHE = last.cached
        /\ settings.KEY_RATE_FALLBACK # Nil =>
              /\ last.rate = settings.KEY_RATE_FALLBACK
              /\ KEY_RATE_CACHE = Some(<<last.now, Val(settings.KEY_RATE_FALLBACK)>>)

\* C16 happens: no fallback, an expired 0.16 from the central bank, both
\* sources down.
C16_Witness ==
    /\ StaleAfterSuccess
    /\ settings.KEY_RATE_FALLBACK = Nil
    /\ last.ru = TransportError
    /\ last.cbr = Response(500, Null)
    /\ last.rate = Some(1600)
    /\ last.source = "stale"

-----------------------------------------------------------------------------
(* Properties of _http_get (checked under SpecHttp) *)

\* C17: a call makes at most 3 attempts; every attempt but the last ended in
\* a transport-level exception (an HTTP 404 or another error status is never
\* followed by a further attempt); and after a third transport failure the
\* exception is raised to the caller.
C17_BoundedTransportRetries ==
    /\ Len(http.wire) <= 3
    /\ \A i \in 1..(Len(http.wire) - 1) : http.wire[i] \in TransportFailures
    /\ (http.pc = "trying" /\ http.wire # <<>>) =>
            http.wire[Len(http.wire)] \in TransportFailures
    /\ (Len(http.wire) = 3 /\ http.wire[3] \in TransportFailures) => http.pc = "raised"

-----------------------------------------------------------------------------
(* Properties of the history paging (checked under SpecPages) *)

\* The rows each answer of the history endpoint carries, with the values of
\* the payload.
PageRows ==
    (PageFullList :> [i \in 1..100 |-> [TRADEDATE |-> Num(i), CLOSE |-> Num(250)]])
 @@ (PageFullColumnar :>
        [i \in 1..100 |-> [TRADEDATE |-> Num(1000 + i), CLOSE |-> Str(<<"2","5","1">>)]])
 @@ (PageShort :> ShortRows)
 @@ (PageEmpty :> <<>>) @@ (PageNoTable :> <<>>)
 @@ (TransportError :> <<>>) @@ (Response(500, Null) :> <<>>)
UpstreamErrors == {TransportError, Response(500, Null)}

\* The rows of the first n answers of the last call, in request order.
RECURSIVE RowsUpTo(_)
RowsUpTo(n) == IF n = 0 THEN <<>> ELSE RowsUpTo(n - 1) \o PageRows[last.log[n].resp]

\* The candidate a request went to.
CandidateOf(req) == <<req.engine, req.market>>

\* The candidates of each board of the model, in the order of the table.
ExpectedCandidates ==
    (<<"T","Q","B","R">> :> << <<"stock", "shares">> >>)
 @@ (<<"t","q","t","f">> :> << <<"stock", "etf">>, <<"stock", "shares">> >>)
 @@ (<<"E","Q","B","R">> :>
        << <<"stock", "shares">>, <<"stock", "etf">>, <<"stock", "bonds">>,
           <<"stock", "index">>, <<"currency", "selt">> >>)

\* C18: within one candidate the paging starts at offset 0 and each further
\* request advances the offset by the rows of the page before it; a further
\* page of the candidate is requested exactly when the page before it had at
\* least 100 rows and fewer than `days` rows were accumulated, so paging
\* stops at a short page, at `days` accumulated rows and at an upstream
\* error; the call returns (never raises) the concatenation of the pages in
\* request order with the values of the payload, which after an upstream
\* error are the rows accumulated before it.
C18_PagingStops ==
    (last.op = "get_security_history" /\ ~last.hit) =>
        /\ last.log # <<>>
        /\ last.log[1].start = 0
        /\ \A n \in 1..Len(last.log) :
              LET page == PageRows[last.log[n].resp]
                  goes_on == Len(page) >= 100 /\ Len(RowsUpTo(n)) < last.days
              IN  /\ goes_on =>
                        /\ n < Len(last.log)
                        /\ CandidateOf(last.log[n + 1]) = CandidateOf(last.log[n])
                        /\ last.log[n + 1].start = last.log[n].start + Len(page)
                  /\ (~goes_on /\ n < Len(last.log)) =>
                        /\ CandidateOf(last.log[n + 1]) # CandidateOf(last.log[n])
                        /\ last.log[n + 1].start = 0
        /\ last.rows = RowsUpTo(Len(last.log))
        /\ last.log[Len(last.log)].resp \in UpstreamErrors
              => last.rows = RowsUpTo(Len(last.log) - 1)

\* C18 happens: a full page in columnar form, then an upstream error: the
\* hundred rows of the first page are returned.
C18_Witness ==
    /\ last.op = "get_security_history"
    /\ last.days = 150
    /\ Len(last.log) = 2
    /\ last.log[1].resp = PageFullColumnar
    /\ last.log[2].resp = Response(500, Null)
    /\ last.log[2].start = 100
    /\ Len(last.rows) = 100
    /\ last.rows[100] = [TRADEDATE |-> Num(1100), CLOSE |-> Str(<<"2","5","1">>)]

\* C19: the candidates of the board are tried in the order of the table,
\* each at most once; a later candidate is tried only while nothing was
\* collected, so no request follows a candidate that returned rows on
\* another candidate, and all rows of the result come from one candidate.
C19_FirstCandidateWithRows ==
    (last.op = "get_security_history" /\ ~last.hit) =>
        LET routes == ExpectedCandidates[last.board]
            tried(k) == {n \in 1..Len(last.log) : CandidateOf(last.log[n]) = routes[k]}
            yielded == {k \in 1..Len(routes) :
                            \E n \in tried(k) : PageRows[last.log[n].resp] # <<>>}
        IN  /\ \A n \in 1..Len(last.log) :
                  \E k \in 1..Len(routes) : CandidateOf(last.log[n]) = routes[k]
            /\ \A k \in 1..Len(routes) : \A m \in tried(k) : \A n \in 1..Len(last.log) :
                  /\ (n < m /\ n \notin tried(k)) =>
                        \E j \in 1..(k - 1) : n \in tried(j)
                  /\ (n > m /\ n \notin tried(k)) =>
                        /\ \E j \in (k + 1)..Len(routes) : n \in tried(j)
                        /\ k \notin yielded
            /\ Cardinality(yielded) <= 1
            /\ \A k \in yielded : \A j \in (k + 1)..Len(routes) : tried(j) = {}
            /\ \A k \in 1..Len(routes) :
                  (tried(k) # {} /\ k > 1) => (tried(k - 1) # {} /\ (k - 1) \notin yielded)
            /\ (yielded = {}) => (last.rows = <<>> /\ \A k \in 1..Len(routes) : tried(k) # {})

\* C19 happens: on a board with two candidates the first has no rows and
\* the second gives a short page.
C19_Witness ==
    /\ last.op = "get_security_history"
    /\ last.board = <<"t","q","t","f">>
    /\ Len(last.log) = 2
    /\ CandidateOf(last.log[1]) = <<"stock", "etf">>
    /\ last.log[1].resp = PageEmpty
    /\ CandidateOf(last.log[2]) = <<"stock", "shares">>
    /\ last.log[2].resp = PageShort
    /\ last.rows = ShortRows

-----------------------------------------------------------------------------
(* Properties of the history cache (checked under SpecHistory) *)

\* C20: when a get_security_history call has made its requests and stored
\* its result, the next call with the same ticker, board and days that starts
\* less than HISTORY_TTL (ten minutes) after the start of that call makes no
\* request and returns the rows of that call, whatever they were (also an
\* empty or partial result after an upstream error); and every call made
\* while the stored result is that young makes no request, returns the
\* stored rows and leaves the entry as it is.
C20_CachedHistory ==
    /\ [][ (/\ last.op = "get_security_history" /\ ~last.hit
             /\ last'.op = "get_security_history"
             /\ last' # last
             /\ Upper(last'.ticker) = Upper(last.ticker)
             /\ last'.board = last.board
             /\ last'.days = last.days
             /\ last'.now - last.now < HISTORY_TTL) =>
               /\ last'.hit
               /\ last'.log = <<>>
               /\ last'.rows = last.rows ]_vars
    /\ []((/\ last.op = "get_security_history"
            /\ last.cached # Nil
            /\ last.now - Val(last.cached)[1] < HISTORY_TTL) =>
              /\ last.log = <<>>
              /\ last.rows = Val(last.cached)[2]
              /\ CacheGet(HISTORY_CACHE, <<Upper(last.ticker), Upper(last.board), last.days>>)
                    = last.cached)

\* C20 happens: a call is served the partial result (one full page) that an
\* earlier call stored when its second request failed.
C20_Witness ==
    /\ last.op = "get_security_history"
    /\ last.hit
    /\ last.log = <<>>
    /\ last.days = 150
    /\ last.cached # Nil
    /\ last.now > Val(last.cached)[1]
    /\ last.rows = Val(last.cached)[2]
    /\ Len(last.rows) = 100

-----------------------------------------------------------------------------
(* Properties of the index cache (checked under SpecIndex) *)

\* The value each answer of the index endpoint carries, in units of 10^-4.
IndexValue == (IdxCurrent :> 32105000) @@ (IdxLastValue :> 33000000)
IndexTransportFailures == {TransportError, Response(500, Null)}
SameIndex(a, b) == Upper(a) = Upper(b)

\* C21: when a get_index_value call has fetched and returned a value, a call
\* for the same name in any letter case that starts less than INDEX_TTL (ten
\* minutes) later makes no request and returns that value; and a call makes
\* no request exactly when a value stored for the name in some letter case is
\* that young: otherwise it makes one request, and when that request ends in
\* a transport failure it returns the stored value if there is one (however
\* old) and raises the failure if there is none.
C21_IndexCache ==
    /\ [][ (/\ last.op = "get_index_value" /\ last.raised = Nil /\ ~last.hit
            /\ last.resp \notin IndexTransportFailures
            /\ last'.op = "get_index_value"
            /\ last' # last
            /\ SameIndex(last'.name, last.name)
            /\ last'.now - last.now < INDEX_TTL) =>
              /\ last'.log = <<>>
              /\ last'.raised = Nil
              /\ last'.value = last.value
              /\ last.value = Some(IndexValue[last.resp]) ]_vars
    /\ [](last.op = "get_index_value" =>
            LET young == last.cached # Nil /\ last.now - Val(last.cached)[1] < INDEX_TTL
            IN  /\ young => (last.log = <<>> /\ last.raised = Nil
                             /\ last.value = Some(Val(last.cached)[2]))
                /\ ~young => Len(last.log) = 1
                /\ (~young /\ last.resp \in IndexTransportFailures) =>
                      IF last.cached # Nil
                      THEN last.raised = Nil /\ last.value = Some(Val(last.cached)[2])
                      ELSE last.raised = Some("RequestException"))

\* C21 happens: the stored value has expired, the new request fails and the
\* call, spelled in lower case, returns the value stored under upper case.
C21_Witness ==
    /\ last.op = "get_index_value"
    /\ last.name = <<"i","m","o","e","x">>
    /\ last.cached = Some(<<0, 32105000>>)
    /\ last.now - 0 >= INDEX_TTL
    /\ Len(last.log) = 1
    /\ last.resp = TransportError
    /\ last.raised = Nil
    /\ last.value = Some(32105000)

-----------------------------------------------------------------------------
(* Properties of the reason codes (checked under SpecReasons) *)

\* The closed set of reason codes.
ReasonCodes ==
    {"no_active_trading_on_moex", "delisted_from_moex", "moex_delisting_announced",
     "eod_close_fallback", "stale_price", "no_trades_no_history", "missing_api_key",
     "upstream_unavailable", "unknown_ticker", "moex_unavailable", "not_available_in_tbank"}

\* The reason and context values of the route and the quote of the last call.
ProducedCodes ==
    (IF last.route = Nil THEN {} ELSE {Val(last.route).reason})
        \cup (IF last.quote = Nil THEN {} ELSE {Val(last.quote).reason, Val(last.quote).context})

\* C22: every non-null reason and context of the route and of the quote that
\* resolve_source and get_quote produce is one of the eleven reason codes,
\* and describe_quote_reason has a non-empty note for each of the eleven
\* codes, so that every produced code is rendered.
C22_ClosedReasonCodes ==
    /\ Cardinality(ReasonCodes) = 11
    /\ \A code \in ProducedCodes :
          code # Nil =>
            /\ Val(code) \in ReasonCodes
            /\ describe_quote_reason(code, Nil) # Nil
    /\ \A c \in ReasonCodes :
          /\ describe_quote_reason(Some(c), Nil) # Nil
          /\ Len(Val(describe_quote_reason(Some(c), Nil))) = 1
          /\ Val(describe_quote_reason(Some(c), Nil))[1] # ""

\* C22 happens: a quote carries a reason and a different context, and both
\* are rendered.
C22_Witness ==
    /\ last.op = "get_quote"
    /\ last.quote # Nil
    /\ Val(last.quote).reason = Some("missing_api_key")
    /\ Val(last.quote).context = Some("moex_delisting_announced")
    /\ Val(last.route).reason = Some("moex_delisting_announced")
    /\ Len(Val(describe_quote_reason(Val(last.quote).reason, Val(last.quote).context))) = 2

-----------------------------------------------------------------------------
(* Properties of the quote timestamp (checked under SpecFetch) *)

\* The market-data answers none of whose rows has a timestamp field that
\* _extract_timestamp can read.
MdWithoutTimestamp == {MdOtherBoardFirst, MdZeroPrice, MdNoRows}

\* C23: a quote of the primary-exchange fetcher built from market data
\* without a present and parseable timestamp field has no timestamp (the
\* clock is never used in its place).
C23_TimestampAbsent ==
    (/\ last.op = "get_quote"
     /\ last.quote # Nil
     /\ Val(last.quote).source = "MOEX"
     /\ \E i \in 1..Len(last.log) :
           last.log[i].ep = "moex_marketdata" /\ last.log[i].resp \in MdWithoutTimestamp)
        => Val(last.quote).ts_utc = Nil

-----------------------------------------------------------------------------
(* Properties of the T-Bank universe (checked under SpecUniverse) *)

\* The tickers of the model trimmed, upper-cased and cut at ';'.
NormalTicker ==
    (SBERText :> SBERText) @@ (<<" ","s","b","e","r"," ">> :> SBERText)
 @@ (<<"g","a","z","p",";","x">> :> <<"G","A","Z","P">>)
 @@ (FXITText :> FXITText) @@ (ROSNText :> ROSNText)
 @@ (<<" "," ">> :> <<>>) @@ (<<";","S","B","E","R">> :> <<>>) @@ (<<>> :> <<>>)

\* The buckets of the documents of the model, by security type.
DocBuckets ==
    (DocSections :> [stock |-> {SBERText, <<"G","A","Z","P">>}, bond |-> {<<"O","F","Z">>},
                     etf |-> {FXITText}])
 @@ (DocMixed :> [stock |-> {ROSNText, FXITText}, bond |-> {}, etf |-> {}])
 @@ (YamlOther :> [stock |-> {}, bond |-> {}, etf |-> {}])
TypeName == (<<"s","t","o","c","k">> :> "stock") @@ (<<"b","o","n","d">> :> "bond")
              @@ (<<"e","t","f">> :> "etf")

\* The file decides the answer by membership in the bucket of the type.
AnswerByBucket ==
    last.answer =
        (NormalTicker[last.ticker] \in DocBuckets[Val(last.file).data][TypeName[last.sec_type]])

\* C28 as stated: for a type of stock, bond, etf, without a universe file
\* every non-empty ticker is tradable, and with a file a ticker is tradable
\* exactly when its normalized form is in the bucket of the type.
C28_EveryNonEmptyTicker ==
    (last.op = "is_tradable" /\ last.sec_type \in SecurityTypes) =>
        /\ (last.file = Nil /\ last.ticker # <<>>) => last.answer
        /\ last.file # Nil => AnswerByBucket

\* C28 amended: without a universe file a ticker is tradable exactly when
\* its normalized form is not empty; with a file, exactly when its
\* normalized form is in the bucket of the type.
C28_NormalizedTicker ==
    (last.op = "is_tradable" /\ last.sec_type \in SecurityTypes) =>
        /\ last.file = Nil => (last.answer = (NormalTicker[last.ticker] # <<>>))
        /\ last.file # Nil => AnswerByBucket

\* C28 happens: a ticker listed as a stock is asked for as an etf while the
\* etf bucket of the rewritten file is empty, and is rejected.
C28_Witness ==
    /\ last.op = "is_tradable"
    /\ last.ticker = FXITText
    /\ last.sec_type = <<"e","t","f">>
    /\ last.file # Nil
    /\ Val(last.file).data = DocMixed
    /\ last.cached # Nil
    /\ Val(last.cached).mtime < Val(last.file).mtime
    /\ ~last.answer

-----------------------------------------------------------------------------
(* Properties of the allocation (checked under SpecAllocation) *)

\* The plan tickers that the universe file of the last call lists under no
\* security type.
NotInUniverse ==
    {t \in PlanTickers :
        \A ty \in {"stock", "bond", "etf"} : t \notin DocBuckets[Val(last.file).data][ty]}
QuotedTickers == {last.log[i].ticker : i \in 1..Len(last.log)}

\* C27: with a universe file, propose_allocation requests no quote for a plan
\* ticker that is not tradable; the line of such a ticker carries a Quote
\* with price None and reason not_available_in_tbank and a note, and the
\* tradable tickers of the plan are quoted.
C27_UnavailableNotQuoted ==
    (last.op = "propose_allocation" /\ last.raised = Nil /\ last.file # Nil) =>
        \A i \in 1..Len(last.plan) :
            LET line == last.plan[i]
            IN  line.ticker # Nil =>
                    IF Val(line.ticker) \in NotInUniverse
                    THEN /\ Val(line.ticker) \notin QuotedTickers
                         /\ line.quote # Nil
                         /\ Val(line.quote).price = Nil
                         /\ Val(line.quote).reason = Some("not_available_in_tbank")
                         /\ line.note # Nil
                    ELSE Val(line.ticker) \in QuotedTickers

-----------------------------------------------------------------------------
(* Properties of the broadcast jobs (checked under SpecJobs) *)

\* C24: a run of a broadcast job that is over has reached the last user it
\* read: a failure while fetching market data for one user did not keep the
\* later users from being processed.
C24_EveryUserProcessed ==
    job.pc \in {"done", "aborted"} => job.i >= Len(job.users)

-----------------------------------------------------------------------------
(* Properties of generate_ideas (checked under SpecIdeas) *)

\* The candidates of the last call: the first of each (ticker, board) key.
LastCandidates ==
    LET all == CandidatesOf(last.assets) \o _extra_candidates
        firsts == SelectSeq([i \in 1..Len(all) |-> i],
                            LAMBDA i : \A j \in 1..(i - 1) :
                                <<all[j].ticker, all[j].board>> # <<all[i].ticker, all[i].board>>)
    IN  [k \in 1..Len(firsts) |-> all[firsts[k]]]

\* What the calls for a candidate met.
WorldOf(c) == last.worlds.of[c.ticker]
QuoteUnavailable(c) ==
    WorldOf(c).quote.raised # Nil \/ Val(WorldOf(c).quote.quote).price = Nil
HasHistory(c) ==
    \E i \in 1..Len(WorldOf(c).history) :
        LET row == WorldOf(c).history[i]
        IN  \E f \in {"TRADEDATE", "DATE"} :
                f \in DOMAIN row /\ row[f].t = "str" /\ row[f].v # <<>>
                /\ \A k \in 1..Len(row[f].v) : IsDigit(row[f].v[k])
IdeasFor(c) == {i \in 1..Len(last.ideas) : last.ideas[i].ticker = Upper(c.ticker)}
SnapshotFailed(c) == WorldOf(c).snapshot.raised # Nil
KeyRateFailed ==
    /\ settings.KEY_RATE_FALLBACK = Nil
    /\ _fetch_ruonia_key_rate(last.worlds.kr.ru).rate = Nil
    /\ _fetch_cbr_key_rate(last.worlds.kr.cbr).rate = Nil

\* C25: generate_ideas does not raise; every candidate is evaluated, in
\* order, whatever happened to the candidates before it; a candidate whose
\* quote raised or has no price gives no idea; a candidate with a price and a
\* dated history gives an idea also when get_security_snapshot or
\* get_key_rate failed, and then the idea carries no key rate.
C25_IdeasSurvive ==
    last.op = "generate_ideas" =>
        /\ last.raised = Nil
        /\ last.built = [k \in 1..Len(LastCandidates) |-> LastCandidates[k].ticker]
        /\ \A k \in 1..Len(LastCandidates) :
              /\ QuoteUnavailable(LastCandidates[k]) => IdeasFor(LastCandidates[k]) = {}
              /\ (~QuoteUnavailable(LastCandidates[k]) /\ HasHistory(LastCandidates[k]))
                    => /\ IdeasFor(LastCandidates[k]) # {}
                       /\ KeyRateFailed =>
                            \A i \in IdeasFor(LastCandidates[k]) :
                                last.ideas[i].metrics.key_rate = Nil

\* A call in which the quote of one candidate was unavailable, the snapshot
\* and the key rate failed, and a later candidate still gave an idea.
C25_Witness ==
    /\ last.op = "generate_ideas"
    /\ KeyRateFailed
    /\ \E k \in 1..Len(LastCandidates) :
          /\ QuoteUnavailable(LastCandidates[k])
          /\ \E j \in (k + 1)..Len(LastCandidates) :
                /\ SnapshotFailed(LastCandidates[j])
                /\ IdeasFor(LastCandidates[j]) # {}

-----------------------------------------------------------------------------
(* Properties of the FX funds (checked under SpecFx) *)

FxFunds == {<<"F","X","I","T">>, <<"F","X","G","D">>}
AggregatorAsked == Asked(last.log, "twelvedata") \/ Asked(last.log, "finnhub")

\* C26: for FXIT and FXGD, when the exchange has a board list for the ticker,
\* resolve_source and get_quote serve it from the exchange: the route is MOEX
\* on the board MTQR, a quote has source MOEX and board MTQR, and no request
\* goes to an aggregator.
C26_FxFromExchange ==
    (/\ last.op \in {"resolve_source", "get_quote"}
     /\ Upper(Strip(last.ticker)) \in FxFunds
     /\ last.w.sec \in FxListings)
        => /\ Val(last.route).name = "MOEX"
           /\ Val(last.route).board = Some(MTQR)
           /\ ~AggregatorAsked
           /\ last.quote # Nil =>
                Val(last.quote).source = "MOEX" /\ Val(last.quote).board = Some(MTQR)

-----------------------------------------------------------------------------
(* Properties of rank_and_filter (checked under SpecRank) *)

\* The ideas of the last call after scoring, in the order of the input.
Ranked == last.ranked
AllScored == last.scored
Reaching == {i \in 1..Len(AllScored) : AllScored[i].score >= settings.IDEAS_SCORE_THRESHOLD}
Least(a, b) == IF a < b THEN a ELSE b
Times(seq, x) == Cardinality({i \in 1..Len(seq) : seq[i] = x})

\* The fresh sources of an idea as the caller passed it.
FreshCount(idea) ==
    Cardinality({k \in 1..Len(idea.sources) :
                    last.today - Val(idea.sources[k].date) <= settings.IDEAS_MAX_AGE_DAYS})

\* The returned ideas are the highest-scored of the candidates pool: each is
\* one of the pool, and an idea of the pool left out scores no higher than
\* any returned one.
HighestOf(pool) ==
    /\ \A x \in {Ranked[i] : i \in 1..Len(Ranked)} : Times(Ranked, x) <= Times(pool, x)
    /\ \A i \in 1..Len(pool) :
          Times(Ranked, pool[i]) < Times(pool, pool[i])
             => \A j \in 1..Len(Ranked) : pool[i].score <= Ranked[j].score

\* C29: rank_and_filter returns at most IDEAS_TOPN ideas, by falling score;
\* they are the highest-scored of the ideas that reach
\* IDEAS_SCORE_THRESHOLD, or of all ideas (at most three) when fewer than
\* three reach it; every idea with fewer fresh sources than
\* IDEAS_MIN_SOURCES gets confidence low and a risk entry saying that the
\* data is insufficient.
C29_RankAndFilter ==
    last.op = "rank_and_filter" =>
        /\ last.raised = Nil
        /\ Len(Ranked) <= settings.IDEAS_TOPN
        /\ \A i, j \in 1..Len(Ranked) : i < j => Ranked[i].score >= Ranked[j].score
        /\ Cardinality(Reaching) >= 3 =>
              /\ Len(Ranked) = Least(settings.IDEAS_TOPN, Cardinality(Reaching))
              /\ HighestOf(SelectSeq(AllScored,
                                     LAMBDA x : x.score >= settings.IDEAS_SCORE_THRESHOLD))
        /\ Cardinality(Reaching) < 3 =>
              /\ Len(Ranked) = Least(settings.IDEAS_TOPN, Least(3, Len(AllScored)))
              /\ HighestOf(AllScored)
        /\ Len(AllScored) = Len(last.ideas)
        /\ \A i \in 1..Len(last.ideas) :
              FreshCount(last.ideas[i]) < settings.IDEAS_MIN_SOURCES =>
                 /\ AllScored[i].confidence = "low"
                 /\ \E k \in 1..Len(AllScored[i].risks) :
                       AllScored[i].risks[k] \in {InsufficientData, FewFreshSources}

\* A call in which more ideas than IDEAS_TOPN reach the threshold, so that
\* the list is cut, and an idea with a score of high confidence has too few
\* fresh sources.
C29_Witness ==
    /\ last.op = "rank_and_filter"
    /\ Cardinality(Reaching) > settings.IDEAS_TOPN
    /\ Len(Ranked) = settings.IDEAS_TOPN
    /\ \E i \in 1..Len(last.ideas) :
          /\ FreshCount(last.ideas[i]) < settings.IDEAS_MIN_SOURCES
          /\ AllScored[i].score >= 5500

-----------------------------------------------------------------------------
(* Properties of _apply_quote_to_line (checked under SpecApply) *)

Applied == last.op = "_apply_quote_to_line"
AppliedLine == last.result
AppliedQuote == last.quote
LotCost == Val(AppliedQuote.price) * Val(AppliedQuote.lot)
PositivePriceAndLot ==
    /\ AppliedQuote.price # Nil /\ Val(AppliedQuote.price) > 0
    /\ AppliedQuote.lot # Nil /\ Val(AppliedQuote.lot) > 0

\* The note the quote alone stands for: nothing of the line's earlier note.
FromQuoteOnly(note) ==
    \/ note = Nil
    \/ note \in {QuoteUnavailableNote, IncorrectPriceNote}
    \/ \A i \in 1..Len(Val(note)) : \E code \in DOMAIN ReasonMessages : Val(note)[i] = ReasonMessages[code]

LargestLots(n) ==
    /\ n >= 0
    /\ n * LotCost <= Units(last.line.amount)
    /\ (n + 1) * LotCost > Units(last.line.amount)

\* C30: _apply_quote_to_line replaces the line's earlier note, lots, units,
\* invested and leftover whatever they were. With a positive price and lot
\* the lots are the largest n with n * price * lot <= amount, the units are
\* n * lot, invested plus leftover is the amount, and the note is None when
\* the quote has no reason. With a price of None the lots stay None, the
\* leftover is the whole amount and the note is not empty.
C30_ApplyQuote ==
    Applied =>
        /\ AppliedLine = _apply_quote_to_line(FreshLine(last.line.amount), AppliedQuote)
        /\ FromQuoteOnly(AppliedLine.note)
        /\ PositivePriceAndLot =>
              /\ AppliedLine.lots # Nil /\ LargestLots(Val(AppliedLine.lots))
              /\ AppliedLine.units = Some(Val(AppliedLine.lots) * Val(AppliedQuote.lot))
              /\ AppliedLine.invested # Nil
              /\ Val(AppliedLine.invested) + Val(AppliedLine.leftover) = last.line.amount * 100
              /\ AppliedQuote.reason = Nil => AppliedLine.note = Nil
        /\ AppliedQuote.price = Nil =>
              /\ AppliedLine.lots = Nil
              /\ AppliedLine.units = Nil
              /\ AppliedLine.invested = Nil
              /\ AppliedLine.leftover = Some(last.line.amount * 100)
              /\ AppliedLine.note # Nil /\ Val(AppliedLine.note) # <<>>

\* A line that carried a note and figures got lots that leave a remainder,
\* from a quote without a reason.
C30_Witness ==
    /\ Applied
    /\ last.line.note # Nil /\ last.line.lots # Nil
    /\ PositivePriceAndLot
    /\ AppliedQuote.reason = Nil
    /\ AppliedLine.lots # Nil /\ Val(AppliedLine.lots) > 0
    /\ Val(AppliedLine.leftover) > 0
    /\ AppliedLine.note = Nil

-----------------------------------------------------------------------------
(* Properties of the live price (checked under SpecPrice) *)

PriceFieldOrder ==
    <<"LAST", "LCURRENTPRICE", "MARKETPRICE3", "MARKETPRICE", "LASTTOPREVPRICE", "CLOSE">>

\* The market-data row the last call was answered with.
AnsweredRow == last.w.md.json.marketdata.rows[1]
MarketDataAnswered ==
    /\ last.op = "get_quote"
    /\ Asked(last.log, "moex_marketdata")

\* The number a field of the answered row stands for, if any.
NumberOf(field) == _safe_float(Get(AnsweredRow, field))
NonZero(i) == NumberOf(PriceFieldOrder[i]) # Nil /\ Val(NumberOf(PriceFieldOrder[i])) # 0
Positive(i) == NumberOf(PriceFieldOrder[i]) # Nil /\ Val(NumberOf(PriceFieldOrder[i])) > 0

\* The quote carries the live price of field i and no end-of-day request was made.
LivePriceFrom(i) ==
    /\ last.quote # Nil
    /\ LastQuote.price = NumberOf(PriceFieldOrder[i])
    /\ LastQuote.reason # Some("eod_close_fallback")
    /\ ~Asked(last.log, "moex_history")

\* C31 as stated: the live price is the value of the first field, in the
\* fixed order, that is non-null and non-zero; without such a field the
\* end-of-day fallback is attempted.
C31_FirstNonZeroField ==
    MarketDataAnswered =>
        /\ \A i \in 1..Len(PriceFieldOrder) :
              (NonZero(i) /\ \A j \in 1..(i - 1) : ~NonZero(j)) => LivePriceFrom(i)
        /\ (\A i \in 1..Len(PriceFieldOrder) : ~NonZero(i)) => Asked(last.log, "moex_history")

\* C31 amended: the live price of a primary-exchange quote is the value of
\* the first field, in the order LAST, LCURRENTPRICE, MARKETPRICE3,
\* MARKETPRICE, LASTTOPREVPRICE, CLOSE, that is a number greater than zero;
\* when no field qualifies the end-of-day fallback is attempted.
C31_FirstPositiveField ==
    MarketDataAnswered =>
        /\ \A i \in 1..Len(PriceFieldOrder) :
              (Positive(i) /\ \A j \in 1..(i - 1) : ~Positive(j)) => LivePriceFrom(i)
        /\ (\A i \in 1..Len(PriceFieldOrder) : ~Positive(i)) => Asked(last.log, "moex_history")

\* A negative LAST is passed over for a later positive field.
C31_Witness ==
    /\ MarketDataAnswered
    /\ NumberOf("LAST") # Nil /\ Val(NumberOf("LAST")) < 0
    /\ Positive(4) /\ \A j \in 1..3 : ~Positive(j)
    /\ LivePriceFrom(4)

-----------------------------------------------------------------------------
(* Properties of concurrent quote callers (checked under SpecRace) *)

\* Both calls are over, both missed the same slot side by side.
MissedTogether(c, d) ==
    /\ c # d
    /\ callers[c].pc = "done" /\ callers[d].pc = "done"
    /\ callers[c].route # Nil /\ callers[d].route # Nil
    /\ ~callers[c].hit /\ ~callers[d].hit
    /\ CacheKeyOf(callers[c]) = CacheKeyOf(callers[d])
    /\ (d \in callers[c].beside \/ c \in callers[d].beside)


\* What the fetcher makes of the answers this caller got, on its own.
BuiltFromOwn(c) ==
    FetchQuote(callers[c].normalized, Val(callers[c].route), EmptyCache, callers[c].at,
               callers[c].w, settings)
ReturnsOwn(c) ==
    /\ callers[c].raised = BuiltFromOwn(c).raised
    /\ callers[c].quote = BuiltFromOwn(c).quote
    /\ callers[c].quote # Nil => Val(callers[c].quote).ticker = callers[c].normalized

EntryOf(c) == <<callers[c].now, Val(callers[c].quote)>>
Priced(c) == callers[c].quote # Nil /\ Val(callers[c].quote).price # Nil
SlotOfCaller(c) == CacheGet(QUOTE_CACHE, CacheKeyOf(callers[c]))

-----------------------------------------------------------------------------
(* Properties of degraded quotes (checked under SpecDegraded) *)

\* The call ended in a Quote without a price.
EndedDegraded(call) ==
    /\ call.op = "get_quote"
    /\ call.raised = Nil
    /\ call.quote # Nil
    /\ Val(call.quote).price = Nil
    /\ Val(call.quote).reason # Nil

OnlyPricedStored == \A key \in DOMAIN QUOTE_CACHE : QUOTE_CACHE[key][2].price # Nil

\* The last call asked for the ticker whose call before it ended degraded.
AfterDegraded ==
    /\ last.op = "get_quote"
    /\ EndedDegraded(last.prev)
    /\ last.prev.ticker = last.ticker

-----------------------------------------------------------------------------
(* The resolver always finds a route (checked under SpecResolve) *)

ResolvedSymbol == Strip(Upper(last.ticker))
LookupFailed ==
    /\ last.log # <<>>
    /\ (last.log[1].resp.exc \/ last.log[1].resp.status >= 400)

\* C34: resolve_source returns the route UNKNOWN, with reason unknown_ticker,
\* exactly when the normalized ticker is empty; for a non-empty ticker it
\* returns a MOEX, BINANCE or AGGREGATOR route whatever the exchange
\* answers, and never raises MarketDataError: when the lookup fails the
\* route is the aggregator's, with the symbol <ticker>.MOEX unless the
\* ticker has a preset.
C34_RouteAlwaysFound ==
    last.op = "resolve_source" =>
        /\ last.raised = Nil
        /\ last.route # Nil
        /\ (LastRoute.name = "UNKNOWN") <=> (ResolvedSymbol = <<>>)
        /\ LastRoute.name = "UNKNOWN" => LastRoute.reason = Some("unknown_ticker")
        /\ ResolvedSymbol # <<>> => LastRoute.name \in {"MOEX", "BINANCE", "AGGREGATOR"}
        /\ LookupFailed =>
              /\ LastRoute.name = "AGGREGATOR"
              /\ LastRoute.symbol = ResolvedSymbol \o <<".","M","O","E","X">>

\* The lookup of a listed share failed and the aggregator route took over.
C34_Witness ==
    /\ last.op = "resolve_source"
    /\ ResolvedSymbol = <<"S","B","E","R">>
    /\ LookupFailed
    /\ last.log[1].resp.exc
    /\ LastRoute.name = "AGGREGATOR"
    /\ LastRoute.reason = Some("moex_unavailable")

-----------------------------------------------------------------------------
(* The order of the aggregators (checked under SpecFetch) *)

\* The requests of the last call to the two aggregators, in order.
AggregatorRequests ==
    SelectSeq(last.log, LAMBDA req : req.ep \in {"twelvedata", "finnhub"})

\* Twelve Data answers that are neither a credential failure nor a failure
\* of the request, and carry no usable price.
AnsweredWithoutPrice == {TdNoPrice, TdErrorCredits}

\* C35: Finnhub is asked only after a Twelve Data request of the same call
\* was answered without a credential failure and without a usable price;
\* without a Twelve Data key the aggregator fetcher asks neither aggregator
\* and returns missing_api_key, even when a Finnhub key is configured.
C35_FinnhubOnlyAfterTwelveData ==
    last.op = "get_quote" =>
        /\ Asked(last.log, "finnhub") =>
              /\ Len(AggregatorRequests) = 2
              /\ AggregatorRequests[1].ep = "twelvedata"
              /\ AggregatorRequests[1].resp \in AnsweredWithoutPrice
              /\ AggregatorRequests[2].ep = "finnhub"
              /\ ~KeyMissing(settings.TWELVEDATA_API_KEY)
        /\ (LastRoute.name = "AGGREGATOR" /\ KeyMissing(settings.TWELVEDATA_API_KEY)) =>
              /\ AggregatorRequests = <<>>
              /\ last.raised = Nil
              /\ LastQuote.price = Nil
              /\ LastQuote.reason = Some("missing_api_key")

\* With a Finnhub key and no Twelve Data key the fetcher asked nobody.
C35_Witness ==
    /\ last.op = "get_quote"
    /\ LastRoute.name = "AGGREGATOR"
    /\ KeyMissing(settings.TWELVEDATA_API_KEY)
    /\ ~KeyMissing(settings.FINNHUB_API_KEY)
    /\ AggregatorRequests = <<>>
    /\ LastQuote.reason = Some("missing_api_key")

-----------------------------------------------------------------------------
(* The cached fallback (checked under SpecKeyRate) *)

\* C36: when get_key_rate returns the configured fallback because both
\* sources failed, it stores the fallback in the cache with the time of the
\* call; every call made less than KEY_RATE_TTL after that returns the
\* fallback from the cache and asks neither source.
C36_FallbackCached ==
    last.op = "get_key_rate" =>
        /\ last.source = "fallback" =>
              /\ Len(last.log) = 2
              /\ last.rate = settings.KEY_RATE_FALLBACK
              /\ KEY_RATE_CACHE = Some(<<last.now, Val(settings.KEY_RATE_FALLBACK)>>)
        /\ (/\ last.cached_from = "fallback"
            /\ last.now - Val(last.cached)[1] < KEY_RATE_TTL) =>
              /\ last.hit
              /\ last.log = <<>>
              /\ last.rate = settings.KEY_RATE_FALLBACK
              /\ KEY_RATE_CACHE = last.cached

\* A call later than the one that stored the fallback, within the hour, is
\* answered with the fallback from the cache.
C36_Witness ==
    /\ last.op = "get_key_rate"
    /\ last.cached_from = "fallback"
    /\ last.hit
    /\ last.now > Val(last.cached)[1]
    /\ last.rate = settings.KEY_RATE_FALLBACK

-----------------------------------------------------------------------------
(* The requests of one history call are bounded (checked under SpecLongHistory) *)

\* The requests of the last call that went to the candidate of request n.
RequestsTo(n) == {m \in 1..Len(last.log) : CandidateOf(last.log[m]) = CandidateOf(last.log[n])}
Barren(m) == PageRows[last.log[m].resp] = <<>>

\* max(1, ceil(days / 100))
PageLimit(days) == IF (days + 99) \div 100 > 1 THEN (days + 99) \div 100 ELSE 1

\* C37: get_security_history ends after finitely many requests whatever the
\* answers: each candidate gets at most one request that is answered with
\* no rows or an error, and the candidate that yields rows gets at most
\* max(1, ceil(days / 100)) requests.
C37_RequestsBounded ==
    (last.op = "get_security_history" /\ ~last.hit) =>
        /\ \A n \in 1..Len(last.log) :
              /\ Cardinality({m \in RequestsTo(n) : Barren(m)}) <= 1
              /\ (\E m \in RequestsTo(n) : ~Barren(m)) =>
                    Cardinality(RequestsTo(n)) <= PageLimit(last.days)
        /\ Len(last.log) <= Len(_market_candidates(Upper(last.board))) - 1 + PageLimit(last.days)

\* Three pages for a window of 250 days, after the first candidate gave nothing.
C37_Witness ==
    /\ last.op = "get_security_history"
    /\ last.days = 250
    /\ Len(last.log) = 4
    /\ Barren(1)
    /\ Cardinality(RequestsTo(2)) = 3
    /\ ~Barren(2) /\ ~Barren(3)
    /\ Len(last.rows) >= 200

-----------------------------------------------------------------------------
(* Properties of is_tradable callers side by side (checked under SpecUniverseRace) *)

\* The modification time of the file now, 0 without a file.
FileTime == IF universe_file = Nil THEN 0 ELSE Val(universe_file).mtime
\* The universes of the documents the file held from time m until now.
UniversesSince(m) ==
    {load_universe(Some([mtime |-> n, data |-> DocAt(n)])) : n \in {k \in 1..FileTime : k >= m}}
\* The cached universe is not older than the time recorded with it.
CacheNotOlder ==
    (UNIVERSE_CACHE # Nil /\ Val(UNIVERSE_CACHE).strict) =>
        Val(UNIVERSE_CACHE).universe \in UniversesSince(Val(UNIVERSE_CACHE).mtime)
\* A stat taken now that gives the cached time finds the file's universe cached.
StatFindsContents ==
    (UNIVERSE_CACHE # Nil /\ universe_file # Nil
        /\ Val(UNIVERSE_CACHE).mtime = Val(universe_file).mtime) =>
        /\ Val(UNIVERSE_CACHE).strict
        /\ Val(UNIVERSE_CACHE).universe = load_universe(universe_file)
\* A call that began when the file had a time answers from the document of
\* that time or of a later one.
AnswersFromNew(caller) ==
    (caller.pc = "done" /\ caller.stat # Nil) =>
        /\ caller.strict
        /\ caller.universe \in UniversesSince(Val(caller.stat))
        /\ caller.answer = InBucket(caller.symbol, caller.universe.STOCKS)

\* The universe of the document the file held at time m.
UniverseAt(m) == load_universe(Some([mtime |-> m, data |-> DocAt(m)]))
\* The callers that hold a stat of the file equal to the cached time.
StatEqualsCached ==
    {c \in CallerIds : /\ callers[c].pc = "stated"
                       /\ callers[c].stat # Nil
                       /\ UNIVERSE_CACHE # Nil
                       /\ Val(UNIVERSE_CACHE).mtime = Val(callers[c].stat)}

\* C38 as stated: under every interleaving of is_tradable callers and rewrites
\* of the universe file, whenever a caller's stat of the file gave the cached
\* modification time, the cached universe is that of the file contents at
\* that time, and a call that starts after a rewrite answers from the new
\* contents.
C38_CachedContentsOfStatTime ==
    /\ \A c \in StatEqualsCached :
           Val(UNIVERSE_CACHE).universe = UniverseAt(Val(callers[c].stat))
    /\ \A c \in CallerIds : AnswersFromNew(callers[c])

\* C38 amended: the cached universe is never older than the modification
\* time recorded with it: whenever a caller's stat of the file gave the
\* cached modification time, the cached universe is that of the file
\* contents at that time or at a later one, a stat taken now that gives the
\* cached time finds the file's own contents cached, and a call that starts
\* after a rewrite answers from the new contents.
C38_CacheNeverOlder ==
    /\ CacheNotOlder
    /\ StatFindsContents
    /\ \A c \in StatEqualsCached :
           Val(UNIVERSE_CACHE).universe \in UniversesSince(Val(callers[c].stat))
    /\ \A c \in CallerIds : AnswersFromNew(callers[c])

\* C38 happens: both callers took the stat of the first document, the file
\* was rewritten, and one caller loaded under the lock: the second document
\* is cached with the time of the first, which the other caller's stat equals.
C38_Witness ==
    /\ FileTime = 2
    /\ UNIVERSE_CACHE # Nil
    /\ Val(UNIVERSE_CACHE).mtime = 1
    /\ Val(UNIVERSE_CACHE).universe = UniverseAt(2)
    /\ UniverseAt(2) # UniverseAt(1)
    /\ callers["user"].pc = "done"
    /\ callers["user"].stat = Some(1)
    /\ callers["user"].symbol = SBERText
    /\ ~callers["user"].answer
    /\ "job" \in StatEqualsCached

-----------------------------------------------------------------------------
(* Properties of the amounts of the plan lines (checked under SpecAmounts) *)

\* The amount in hundredths rounded half-up to an integer.
HalfUp(amount) == IF amount % 100 >= 50 THEN (amount \div 100) + 1 ELSE amount \div 100
\* propose_allocation returned a plan.
PlanReturned == last.op = "propose_allocation" /\ last.raised = Nil
LineAmountsOf(plan) == [i \in 1..Len(plan) |-> plan[i].amount]

\* C39: for every contribution amount and every risk profile, the remainder
\* loop of propose_allocation ends, and the amounts of the lines of the
\* returned plan are non-negative integers whose sum is the amount rounded
\* half-up to an integer.
C39_AmountsSumToTotal ==
    /\ (last.op = "propose_allocation") => last.raised # Some("no return")
    /\ PlanReturned =>
        /\ Len(last.plan) = Len(PORTFOLIO_TEMPLATES[ProfileOf(last.risk)])
        /\ \A i \in 1..Len(last.plan) : last.plan[i].amount \in Nat
        /\ SeqSum(LineAmountsOf(last.plan)) = HalfUp(last.amount)

\* C39 happens: 45000.00 is split by the balanced profile at a key rate of
\* 16 percent with weights that sum to less than one: the amounts rounded
\* down leave a remainder greater than the number of lines, the loop goes
\* round the lines more than once, and the lines sum to 45000.
C39_Witness ==
    /\ PlanReturned
    /\ last.amount = 4500000
    /\ last.risk = "balanced"
    /\ last.rate = Some(1600)
    /\ last.rounding = "down"
    /\ SplitAmount(WeightedAssets("balanced", 1600, "down"), 45000).steps > Len(last.plan)
    /\ SeqSum(LineAmountsOf(last.plan)) = 45000

-----------------------------------------------------------------------------
(* Properties of the balance adjustment (checked under SpecBalance) *)

\* record_balance_adjustment has completed for a known user.
AdjustedKnown == last.op = "record_balance_adjustment" /\ last.known
\* x is a whole number of hundredths; x is half-way between two hundredths.
WholeHundredths(x) == x % 10 = 0
HalfWay(x) == x % 10 = 5
\* The balance of the user of the last call is the desired total rounded to
\* two decimals (either way when it is half-way).
BalanceIsDesired ==
    \E tie \in Ties : load_balance(db, last.user_id) = Round2(last.desired_total, tie)
\* A repeated adjustment computes a zero delta and adds no record.
RepeatChangesNothing ==
    last.repeated => (last.delta = 0 /\ db.contributions = last.before.contributions)

\* C40 as stated: after record_balance_adjustment(desired_total) completes
\* for a known user, the balance of the user is desired_total rounded to two
\* decimals, and a repeated adjustment to the same desired_total computes a
\* zero delta and adds no contribution record.
C40_BalanceIsDesiredTotal ==
    AdjustedKnown => (BalanceIsDesired /\ RepeatChangesNothing)

\* C40 amended: the same, for a user whose balance before the call is a
\* whole number of hundredths and a desired_total that is not half-way
\* between two hundredths.
C40_WholeHundredthsAdjusted ==
    (/\ AdjustedKnown
     /\ WholeHundredths(last.current)
     /\ ~HalfWay(last.desired_total)) => (BalanceIsDesired /\ RepeatChangesNothing)

\* C40 happens: user 1, with 100.00 contributed, asks for 50.004 twice: the
\* first call adds -50.00, the second computes a zero delta and adds nothing.
C40_Witness ==
    /\ AdjustedKnown
    /\ last.user_id = 1
    /\ last.desired_total = 50004
    /\ last.repeated
    /\ last.delta = 0
    /\ last.reply = "Balans uzhe sostavlyaet"
    /\ db.contributions = <<Contribution(1, 100000, "manual"),
                            Contribution(1, 0 - 50000, "adjustment")>>
    /\ load_balance(db, 1) = 50000

====
